---- MODULE Spec2Model ----
(***************************************************************************)
(* Kaffi engine skeleton: platform layer (Win32 / X11 message pump,        *)
(* startup, shutdown), application lifecycle (application_create,          *)
(* application_run) and the tagged memory ledger (kallocate / kfree).      *)
(*                                                                         *)
(* Four specifications share the variables:                                *)
(*   Spec      a client calling application_create / application_run in    *)
(*             any order (the exported API of application.h)               *)
(*   SpecRun   application_run entered with any value of the static        *)
(*             app_state flags (is_running, is_suspended)                  *)
(*   SpecMem   kallocate / kfree with frees matching earlier allocations   *)
(*   SpecPump  platform_pump_messages applied to a pending event queue     *)
(***************************************************************************)
EXTENDS Integers, Sequences, FiniteSets, TLC

VARIABLES
    backend,      \* platform selected at compile time: "win32" or "x11"
    initialized,  \* application.c: static b8 initialized
    app_state,    \* application.c: static application_state app_state
    os,           \* OS-global state the platform layer changes
    pc,           \* position of the single thread inside application_run
    iter,         \* pump calls made by the current application_run
    clock,        \* what platform_get_absolute_time would return now
    calls,        \* log of the calls the engine made (platform, callbacks)
    run_start,    \* Len(calls) when the current application_run was entered
    run_entry,    \* app_state flags at the entry of the current application_run
    api,          \* log of returned API calls (application_create/_run)
    stats,        \* kmemory.c: static struct memory_stats stats
    live,         \* blocks handed out by kallocate and not yet freed
    mem_pc,       \* "ok", or "crashed" after memset on a failed allocation
    mem_warned,   \* the last kallocate/kfree emitted the UNKNOWN-tag warning
    mem_calls,    \* how many kallocate and kfree calls were made so far
    queue,        \* pending OS events of the window (SpecPump)
    pump_out,     \* what the last platform_pump_messages call did (SpecPump)
    main_pc,      \* position inside main() of entry.h or of testbed main.c
    game,         \* entry.h: the local `game game_inst` create_game fills
    exit,         \* how the process ended: exit status and what main reported
    tb_state,     \* testbed main.c: the local `platform_state state`
    mem_ret,      \* the last kallocate/kfree call: arguments, returned block and
                  \* the ledger as its platform_allocate/platform_free call saw it
    report,       \* what the last get_memory_usage_str call wrote and returned
    logged,       \* the lines log_output printed during the last step
    heap,         \* the bytes of the buffers a client hands to kzero/kcopy_memory
    buf_call,     \* the last kzero_memory/kcopy_memory call and what it returned
    threads,      \* threads inside kallocate/kfree: the ledger they started from
                  \* and, per thread, its position and the value it has loaded
    log_buf       \* the last log_output call seen as writes to out_message:
                  \* the indices it wrote and what vsnprintf returned

appVars  == <<initialized, app_state, os, pc, iter, clock, calls, run_start,
              run_entry, api>>
memVars  == <<stats, live, mem_pc, mem_warned, mem_calls, mem_ret, report,
              heap, buf_call, threads>>
pumpVars == <<queue, pump_out>>
entryVars == <<main_pc, game, exit, tb_state>>
vars     == <<backend, initialized, app_state, os, pc, iter, clock, calls, run_start,
              run_entry, api, stats, live, mem_pc, mem_warned, mem_calls,
              queue, pump_out, main_pc, game, exit, tb_state, mem_ret, report, logged,
              heap, buf_call, threads, log_buf>>

(***************************************************************************)
(* Bounds                                                                  *)
(***************************************************************************)
\* loop iterations (pump calls) explored per application_run call
MaxIter == 3
\* API calls (application_create / application_run) a client makes
MaxCalls == 3
\* OS events that arrive between two pump calls of the run loop
MaxBatch == 1
\* pending OS events in the queue handed to platform_pump_messages
MaxQueue == 2
\* kallocate / kfree calls a client makes
MaxMemCalls == 5

Backends == {"win32", "x11"}
Games    == {"gameA", "gameB"}

Last(s) == s[Len(s)]

RECURSIVE SeqsUpTo(_, _)
SeqsUpTo(S, n) ==
    IF n = 0 THEN {<<>>}
    ELSE LET shorter == SeqsUpTo(S, n - 1)
         IN  shorter \cup {Append(s, e) : s \in shorter, e \in S}

(***************************************************************************)
(* X11 backend: platform_pump_messages  (platform_linux.c)                 *)
(***************************************************************************)
XCB_KEY_PRESS        == 2
XCB_KEY_RELEASE      == 3
XCB_BUTTON_PRESS     == 4
XCB_BUTTON_RELEASE   == 5
XCB_MOTION_NOTIFY    == 6
XCB_EXPOSE           == 12
XCB_CONFIGURE_NOTIFY == 22
XCB_CLIENT_MESSAGE   == 33
\* the bit of response_type that marks an event sent by another client
SentBit == 128

\* what data.data32[0] of an event can hold: the atom the server interned for
\* WM_DELETE_WINDOW (cached in state->wm_delete_win), or something else
Data32 == {"WM_DELETE_WINDOW", "WM_TAKE_FOCUS"}

X11EventTypes == {XCB_KEY_PRESS, XCB_KEY_RELEASE, XCB_BUTTON_PRESS,
                  XCB_BUTTON_RELEASE, XCB_MOTION_NOTIFY, XCB_EXPOSE,
                  XCB_CONFIGURE_NOTIFY, XCB_CLIENT_MESSAGE}

\* xcb_generic_event_t as the pump reads it. Client messages of the window
\* manager arrive with the sent bit set; the other events come from the server.
X11Events ==
    [response_type : X11EventTypes \ {XCB_CLIENT_MESSAGE}, data32_0 : {"WM_TAKE_FOCUS"}]
    \cup [response_type : {XCB_CLIENT_MESSAGE, XCB_CLIENT_MESSAGE + SentBit,
                           XCB_KEY_PRESS + SentBit},
          data32_0 : Data32]

\* event->response_type & ~0x80
EventCode(event) == event.response_type % SentBit

\* a variant of the switch that tests response_type without masking the
\* sent bit
x11_handle_event_Unmasked(event, quit_flagged) ==
    IF event.response_type = XCB_CLIENT_MESSAGE
    THEN IF event.data32_0 = "WM_DELETE_WINDOW" THEN TRUE ELSE quit_flagged
    ELSE quit_flagged

\* the switch of the poll loop: the new value of quit_flagged
x11_handle_event(event, quit_flagged) ==
    IF EventCode(event) = XCB_CLIENT_MESSAGE
    THEN IF event.data32_0 = "WM_DELETE_WINDOW" THEN TRUE ELSE quit_flagged
    ELSE quit_flagged

\* while ((event = xcb_poll_for_event(connection))) { switch ...; free(event); }
RECURSIVE x11_poll_loop(_, _)
x11_poll_loop(q, quit_flagged) ==
    IF q = <<>>
    THEN [queue |-> q, quit_flagged |-> quit_flagged]
    ELSE x11_poll_loop(Tail(q), x11_handle_event(Head(q), quit_flagged))

x11_pump_messages(q) ==
    LET r == x11_poll_loop(q, FALSE)
    IN  [queue |-> r.queue, keep_running |-> ~r.quit_flagged]

(***************************************************************************)
(* Win32 backend: platform_pump_messages, win32_process_message            *)
(* (platform_win32.c)                                                      *)
(***************************************************************************)
Win32Messages == {"WM_ERASEBKGND", "WM_CLOSE", "WM_DESTROY", "WM_SIZE",
                  "WM_KEYDOWN", "WM_KEYUP", "WM_MOUSEMOVE", "WM_MOUSEWHEEL",
                  "WM_LBUTTONDOWN", "WM_PAINT", "WM_QUIT"}

\* the window procedure: what handling msg does. WM_DESTROY posts the quit
\* message (PostQuitMessage); WM_CLOSE is swallowed (return 0, no
\* DefWindowProc, so the window is not destroyed); the rest goes to
\* DefWindowProcA or is answered directly.
win32_process_message(msg) ==
    CASE msg = "WM_ERASEBKGND" -> [post_quit |-> FALSE, def_proc |-> FALSE]
      [] msg = "WM_CLOSE"      -> [post_quit |-> FALSE, def_proc |-> FALSE]
      [] msg = "WM_DESTROY"    -> [post_quit |-> TRUE,  def_proc |-> FALSE]
      [] OTHER                 -> [post_quit |-> FALSE, def_proc |-> TRUE]

\* while (PeekMessageA(&message, NULL, 0, 0, PM_REMOVE)) { Translate; Dispatch }
\* quit_posted: PostQuitMessage was called and its WM_QUIT is not yet retrieved;
\* PeekMessage hands WM_QUIT out (returning nonzero) once the queue is empty.
RECURSIVE win32_peek_loop(_, _)
win32_peek_loop(q, quit_posted) ==
    IF q = <<>>
    THEN IF quit_posted THEN win32_peek_loop(<<"WM_QUIT">>, FALSE)
         ELSE [queue |-> q]
    ELSE IF Head(q) = "WM_QUIT"
         THEN win32_peek_loop(Tail(q), quit_posted)
         ELSE win32_peek_loop(Tail(q),
                  quit_posted \/ win32_process_message(Head(q)).post_quit)

win32_pump_messages(q) ==
    LET r == win32_peek_loop(q, FALSE)
    IN  [queue |-> r.queue, keep_running |-> TRUE]

(***************************************************************************)
(* Both backends behind platform.h                                         *)
(***************************************************************************)
OsEvents(b) == IF b = "x11" THEN X11Events ELSE Win32Messages

\* a window-close request as it shows up in the queue of backend b
IsCloseRequest(b, e) ==
    IF b = "x11"
    THEN EventCode(e) = XCB_CLIENT_MESSAGE /\ e.data32_0 = "WM_DELETE_WINDOW"
    ELSE e = "WM_DESTROY"

platform_pump_messages(b, q) ==
    IF b = "x11" THEN x11_pump_messages(q) ELSE win32_pump_messages(q)

(***************************************************************************)
(* The pump as a unit: events arrive, then one platform_pump_messages call *)
(* drains them.                                                            *)
(***************************************************************************)
NoPump == [called |-> FALSE, drained |-> <<>>, keep_running |-> TRUE]

PumpIdle == queue = <<>> /\ pump_out = NoPump

OsPost(e) ==
    /\ ~pump_out.called
    /\ Len(queue) < MaxQueue
    /\ queue' = Append(queue, e)
    /\ logged' = <<>>
    /\ UNCHANGED <<backend, log_buf, pump_out>> /\ UNCHANGED entryVars
    /\ UNCHANGED appVars /\ UNCHANGED memVars

PumpMessages ==
    /\ ~pump_out.called
    /\ LET r == platform_pump_messages(backend, queue)
       IN  /\ queue' = r.queue
           /\ pump_out' = [called |-> TRUE, drained |-> queue,
                           keep_running |-> r.keep_running]
    /\ logged' = <<>>
    /\ UNCHANGED <<backend, log_buf>> /\ UNCHANGED entryVars
    /\ UNCHANGED appVars /\ UNCHANGED memVars

(***************************************************************************)
(* platform_state and the OS-global state                                  *)
(*   internal_state  the malloc'ed internal_state block exists             *)
(*   display         X11: XOpenDisplay gave a display; Win32: h_instance   *)
(*   connection      X11: "garbage" (never assigned), "error", "ok";       *)
(*                   Win32 has none ("none")                               *)
(*   window          "null" (0), "valid" (names a native window), "stale"  *)
(*                   (an id that names no window), "garbage" (never        *)
(*                   assigned: the bytes malloc returned)                  *)
(*   atoms           X11: wm_protocols / wm_delete_win were stored         *)
(*   started         ghost: platform_startup returned TRUE for this state  *)
(*                   and platform_shutdown has not run on it since         *)
(***************************************************************************)
NullPlatform ==
    [internal_state |-> FALSE, display |-> FALSE, connection |-> "garbage",
     window |-> "null", atoms |-> FALSE, started |-> FALSE]

\* key_repeat: the X server's global auto-repeat setting is on
\* windows: native windows this process has created and not destroyed
\* class_registered: Win32 window class "kaffi_window_class" is registered
OsInit == [key_repeat |-> TRUE, windows |-> 0, class_registered |-> FALSE]

\* the step of platform_startup that the OS lets fail ("none": no step)
StartupFailures(b) ==
    IF b = "x11" THEN {"none", "display", "xcb", "window", "atoms", "flush"}
    ELSE {"none", "register", "window"}

\* platform_linux.c platform_startup
x11_startup(o, fail) ==
    LET fresh == [internal_state |-> TRUE, display |-> FALSE, connection |-> "garbage",
                  window |-> "garbage", atoms |-> FALSE, started |-> FALSE]
        opened  == [fresh EXCEPT !.display = TRUE]
        off     == [o EXCEPT !.key_repeat = FALSE]
        created == [off EXCEPT !.windows = @ + 1]
    IN  CASE fail = "display" ->
                [platform |-> fresh, os |-> o, ret |-> FALSE, crash |-> FALSE]
          [] fail = "xcb" ->
                [platform |-> [opened EXCEPT !.connection = "error"],
                 os |-> off, ret |-> FALSE, crash |-> FALSE]
          [] fail = "window" ->
                [platform |-> [opened EXCEPT !.connection = "ok", !.window = "stale"],
                 os |-> off, ret |-> FALSE, crash |-> FALSE]
          [] fail = "atoms" ->
                \* a NULL xcb_intern_atom_reply is dereferenced
                [platform |-> [opened EXCEPT !.connection = "ok", !.window = "valid"],
                 os |-> created, ret |-> FALSE, crash |-> TRUE]
          [] fail = "flush" ->
                [platform |-> [opened EXCEPT !.connection = "ok", !.window = "valid",
                                             !.atoms = TRUE],
                 os |-> created, ret |-> FALSE, crash |-> FALSE]
          [] OTHER ->
                [platform |-> [opened EXCEPT !.connection = "ok", !.window = "valid",
                                             !.atoms = TRUE, !.started = TRUE],
                 os |-> created, ret |-> TRUE, crash |-> FALSE]

\* platform_win32.c platform_startup. RegisterClassA also fails when the class
\* is already registered by an earlier startup of this process.
win32_startup(o, fail) ==
    LET fresh == [internal_state |-> TRUE, display |-> TRUE, connection |-> "none",
                  window |-> "garbage", atoms |-> FALSE, started |-> FALSE]
        reg   == [o EXCEPT !.class_registered = TRUE]
    IN  IF fail = "register" \/ o.class_registered
        THEN [platform |-> fresh, os |-> o, ret |-> FALSE, crash |-> FALSE]
        ELSE IF fail = "window"
        THEN [platform |-> fresh, os |-> reg, ret |-> FALSE, crash |-> FALSE]
        ELSE [platform |-> [fresh EXCEPT !.window = "valid", !.started = TRUE],
              os |-> [reg EXCEPT !.windows = @ + 1], ret |-> TRUE, crash |-> FALSE]

platform_startup(b, o, fail) ==
    IF b = "x11" THEN x11_startup(o, fail) ELSE win32_startup(o, fail)

\* platform_shutdown of both backends. Reading through a NULL internal_state
\* or handing a NULL display to XAutoRepeatOn faults.
platform_shutdown(b, p, o) ==
    IF ~p.internal_state \/ (b = "x11" /\ ~p.display)
    THEN [platform |-> p, os |-> o, crash |-> TRUE]
    ELSE LET o1 == IF b = "x11" THEN [o EXCEPT !.key_repeat = TRUE] ELSE o
             o2 == IF p.window = "valid" THEN [o1 EXCEPT !.windows = @ - 1] ELSE o1
         IN  [platform |-> [p EXCEPT !.window = "null", !.started = FALSE],
              os |-> o2, crash |-> FALSE]

\* events that can be pending when the run loop pumps: only a live window
\* receives any
Batches(b, p) ==
    IF p.window = "valid" THEN SeqsUpTo(OsEvents(b), MaxBatch) ELSE {<<>>}

\* what a platform_pump_messages(&app_state.platform) call of the run loop can
\* do. Win32 never reads plat_state. X11 reads state->connection: a NULL
\* internal_state faults, a never-assigned connection is an indeterminate
\* pointer (any outcome), a connection in error state yields no event.
PumpOutcomes(b, p, q) ==
    IF b = "win32"
    THEN {[crash |-> FALSE, keep_running |-> win32_pump_messages(q).keep_running]}
    ELSE IF ~p.internal_state
    THEN {[crash |-> TRUE, keep_running |-> TRUE]}
    ELSE IF p.connection = "garbage"
    THEN {[crash |-> TRUE, keep_running |-> TRUE]}
         \cup {[crash |-> FALSE, keep_running |-> k] : k \in BOOLEAN}
    ELSE IF p.connection = "error"
    THEN {[crash |-> FALSE, keep_running |-> TRUE]}
    ELSE {[crash |-> FALSE, keep_running |-> x11_pump_messages(q).keep_running]}

(***************************************************************************)
(* Logger  (core/logger.c, core/logger.h)                                  *)
(***************************************************************************)
LOG_LEVEL_FATAL == 0
LOG_LEVEL_ERROR == 1
LOG_LEVEL_WARN  == 2
LOG_LEVEL_INFO  == 3
LOG_LEVEL_DEBUG == 4
LOG_LEVEL_TRACE == 5

LogLevels == LOG_LEVEL_FATAL .. LOG_LEVEL_TRACE

\* logger.c:56
level_strings ==
    [l \in LogLevels |->
        CASE l = LOG_LEVEL_FATAL -> "[FATAL]: "
          [] l = LOG_LEVEL_ERROR -> "[ERROR]: "
          [] l = LOG_LEVEL_WARN  -> "[WARN]: "
          [] l = LOG_LEVEL_INFO  -> "[INFO]: "
          [] l = LOG_LEVEL_DEBUG -> "[DEBUG]: "
          [] OTHER               -> "[TRACE]: "]

\* a variant in which a FATAL message ends the process
log_output_FatalAborts(out, level, message) ==
    [out |-> Append(out, [level |-> level,
                          text |-> level_strings[level] \o message \o "\n"]),
     returned |-> level # LOG_LEVEL_FATAL]

\* logger.c:55-89 : void log_output(level, message, ...), message already
\* formatted. out: the lines printed so far; returned: control comes back to
\* the caller.
log_output(out, level, message) ==
    [out |-> Append(out, [level |-> level,
                          text |-> level_strings[level] \o message \o "\n"]),
     returned |-> TRUE]

RECURSIVE log_each(_, _)
\* consecutive log_output calls, msgs being <<level, message>> pairs; the
\* calls after one that does not return are not made
log_each(out, msgs) ==
    IF msgs = <<>>
    THEN [out |-> out, returned |-> TRUE]
    ELSE LET r == log_output(out, msgs[1][1], msgs[1][2])
         IN  IF r.returned THEN log_each(r.out, Tail(msgs)) ELSE r

\* application.c:96-101, testbed main.c:26-31 : the six test messages
TestMessages ==
    [l \in 1 .. 6 |-> <<l - 1, "A test message: 3.140000">>]

\* the KFATAL of the platform_startup step that failed (platform_linux.c:127,
\* :140, :193, :254; platform_win32.c:94, :139)
StartupLog(b, o, fail) ==
    IF b = "x11"
    THEN CASE fail = "display" -> <<<<LOG_LEVEL_FATAL, "Failed to open X display">>>>
           [] fail = "xcb" -> <<<<LOG_LEVEL_FATAL, "Failed to connect to X server via XCB">>>>
           [] fail = "window" -> <<<<LOG_LEVEL_FATAL, "Window creation failed!">>>>
           [] fail = "flush" ->
                <<<<LOG_LEVEL_FATAL, "An error occurred when flusing the stream: 0">>>>
           [] OTHER -> <<>>
    ELSE IF fail = "register" \/ o.class_registered
    THEN <<<<LOG_LEVEL_FATAL, "Window registraction failed">>>>
    ELSE IF fail = "window"
    THEN <<<<LOG_LEVEL_FATAL, "Window creation failed!">>>>
    ELSE <<>>

\* the process has ended inside log_output
LogAborted == [status |-> 128 + 6, report |-> "none"]

(***************************************************************************)
(* Application lifecycle  (core/application.c)                             *)
(***************************************************************************)
\* one entry of the call log: the call, what it returned (TRUE for a void
\* call), whether it faulted, app_state.is_running when it was made, whether
\* the platform_state it was made on was started then, the arguments passed
\* (kept for platform_startup and on_resize) and, for platform_startup, the
\* step the OS let fail
Event(op, ret, crash, running, started, arg, fail) ==
    [op |-> op, ret |-> ret, crash |-> crash, running |-> running,
     started |-> started, arg |-> arg, fail |-> fail, at |-> clock]

\* the time one loop iteration takes, in ticks of the monotonic clock
\* (platform_get_absolute_time): time passes between two frames
FrameTime == 1

\* application.c:152, :160 : the delta_time handed to update and render
DeltaTime == 0

\* a call of a game callback that takes delta_time
FrameCall(op, ret) ==
    Event(op, ret, FALSE, app_state.is_running, app_state.platform.started,
          <<DeltaTime>>, "none")

Call(op, ret, crash) ==
    Event(op, ret, crash, app_state.is_running, app_state.platform.started,
          <<>>, "none")

\* game_inst->app_config of the games a client hands in (gameA: the values
\* testbed/src/entry.c sets)
app_config(g) ==
    IF g = "gameA"
    THEN [start_pos_x |-> 100, start_pos_y |-> 100, start_width |-> 1280,
          start_height |-> 720, name |-> "Kaffi Engine Testbed"]
    ELSE [start_pos_x |-> 0, start_pos_y |-> 20, start_width |-> 640,
          start_height |-> 480, name |-> "Other Game"]

\* application.c:108-114 : the arguments of the platform_startup call
StartupArgs(g) ==
    <<app_config(g).name, app_config(g).start_pos_x, app_config(g).start_pos_y,
      app_config(g).start_width, app_config(g).start_height>>

\* a variant that hands height and width over in the wrong order
ResizeArgs_Swapped(g) ==
    <<app_config(g).start_height, app_config(g).start_width>>

\* application.c:126 : the arguments of the on_resize call
ResizeArgs(g) ==
    <<app_config(g).start_width, app_config(g).start_height>>

\* static storage: zero-initialised
AppStateInit ==
    [game_inst |-> "null", is_running |-> FALSE, is_suspended |-> FALSE,
     platform |-> NullPlatform, last_time |-> 0]

NoEntry == [started |-> FALSE, suspended |-> FALSE, running |-> FALSE]

\* a variant of the loop test that never leaves the loop
LoopTest_Forever(is_running) == "pump"

\* while (app_state.is_running)
LoopTest(is_running) == IF is_running THEN "pump" ELSE "exit"

ClientIdle == pc = "idle" /\ Len(api) < MaxCalls

\* application.c:85-88 : the guard of application_create
CreateRejected ==
    /\ initialized
    /\ api' = Append(api, [fn |-> "application_create", val |-> FALSE])
    /\ logged' = log_output(<<>>, LOG_LEVEL_ERROR,
                            "application_create called more than once.").out
    /\ UNCHANGED <<initialized, app_state, os, pc, iter, clock, calls, run_start, run_entry>>

\* a variant of the flag setup that starts the application suspended
CreateFlags_Suspended(st, g) ==
    [st EXCEPT !.game_inst = g, !.is_running = TRUE, !.is_suspended = TRUE]

\* application.c:91, :104-105 : game_inst is stored and the two flags are set
\* before platform_startup is called
CreateFlags(st, g) ==
    [st EXCEPT !.game_inst = g, !.is_running = TRUE, !.is_suspended = FALSE]

\* application.c:90-130 : the body behind the guard. g is the game handed in,
\* fail the step of platform_startup that fails, init_ok what the game's
\* initialize callback returns.
CreateBody(g, fail, init_ok) ==
    LET s1 == CreateFlags(app_state, g)
        su == platform_startup(backend, os, fail)
        s2 == [s1 EXCEPT !.platform = su.platform]
        c1 == Append(calls, Event("platform_startup", su.ret, su.crash, TRUE,
                                  app_state.platform.started, StartupArgs(g), fail))
        c2 == Append(c1, Event("initialize", init_ok, FALSE, TRUE,
                               su.platform.started, <<>>, "none"))
        c3 == Append(c2, Event("on_resize", TRUE, FALSE, TRUE,
                               su.platform.started, ResizeArgs(g), "none"))
        t  == log_each(<<>>, TestMessages)
        f1 == log_each(t.out, StartupLog(backend, os, fail)
                              \o <<<<LOG_LEVEL_FATAL, "Platform startup failed.">>>>)
        f2 == log_output(t.out, LOG_LEVEL_FATAL, "Game failed to initialize.")
        failed == Append(api, [fn |-> "application_create", val |-> FALSE])
    IN  IF ~t.returned
        THEN /\ logged' = t.out
             /\ pc' = "terminated"
             /\ app_state' = [app_state EXCEPT !.game_inst = g]
             /\ UNCHANGED <<initialized, os, iter, clock, calls, run_start, run_entry, api>>
        ELSE
        /\ app_state' = s2
        /\ os' = su.os
        /\ UNCHANGED <<iter, clock, run_start, run_entry>>
        /\ IF su.crash
           THEN /\ calls' = c1 /\ pc' = "crashed"
                /\ logged' = t.out
                /\ UNCHANGED <<initialized, api>>
           ELSE IF ~su.ret
           THEN /\ calls' = c1
                /\ logged' = f1.out
                /\ initialized' = initialized
                /\ pc' = IF f1.returned THEN pc ELSE "terminated"
                /\ api' = IF f1.returned THEN failed ELSE api
           ELSE IF ~init_ok
           THEN /\ calls' = c2
                /\ logged' = f2.out
                /\ initialized' = initialized
                /\ pc' = IF f2.returned THEN pc ELSE "terminated"
                /\ api' = IF f2.returned THEN failed ELSE api
           ELSE /\ calls' = c3 /\ pc' = pc
                /\ logged' = t.out
                /\ initialized' = TRUE
                /\ api' = Append(api, [fn |-> "application_create", val |-> TRUE])

\* a variant of application_create without the call-once guard
ApplicationCreate_NoGuard(g, fail, init_ok) ==
    /\ ClientIdle
    /\ CreateBody(g, fail, init_ok)
    /\ UNCHANGED <<backend, log_buf>> /\ UNCHANGED entryVars /\ UNCHANGED memVars /\ UNCHANGED pumpVars

\* b8 application_create(game* game_inst)
ApplicationCreate(g, fail, init_ok) ==
    /\ ClientIdle
    /\ IF initialized THEN CreateRejected ELSE CreateBody(g, fail, init_ok)
    /\ UNCHANGED <<backend, log_buf>> /\ UNCHANGED entryVars /\ UNCHANGED memVars /\ UNCHANGED pumpVars

\* application_run is entered and reaches the first test of the while loop
RunEnter ==
    /\ ClientIdle
    /\ pc' = LoopTest(app_state.is_running)
    /\ iter' = 0
    /\ run_start' = Len(calls)
    /\ run_entry' = [started |-> app_state.platform.started,
                     suspended |-> app_state.is_suspended,
                     running |-> app_state.is_running]
    /\ UNCHANGED <<initialized, app_state, os, clock, calls, api>>
    /\ logged' = <<>>
    /\ UNCHANGED <<backend, log_buf>> /\ UNCHANGED entryVars /\ UNCHANGED memVars /\ UNCHANGED pumpVars

\* a variant of the loop that leaves at once when the pump signals stop
AfterPump_BreakOnStop(st) ==
    IF ~st.is_running THEN "exit"
    ELSE IF ~st.is_suspended THEN "update" ELSE LoopTest(st.is_running)

\* a variant of the loop that does not look at is_suspended
AfterPump_IgnoreSuspend(st) == "update"

\* where the loop goes after the pump: application.c:148 and the loop test
AfterPump(st) ==
    IF ~st.is_suspended THEN "update" ELSE LoopTest(st.is_running)

\* a variant that drops the stop signal of the pump
PumpResult_IgnoreStop(st, keep_running) == st

\* application.c:143-145 : app_state after a pump that returned keep_running
PumpResult(st, keep_running) ==
    IF ~keep_running THEN [st EXCEPT !.is_running = FALSE] ELSE st

\* application.c:143-148 : pump the OS messages, then the suspension test
RunPump ==
    /\ pc = "pump"
    /\ iter < MaxIter
    /\ \E q \in Batches(backend, app_state.platform) :
         \E out \in PumpOutcomes(backend, app_state.platform, q) :
           /\ calls' = Append(calls, Call("pump", out.keep_running, out.crash))
           /\ iter' = iter + 1
           /\ clock' = clock + FrameTime
           /\ IF out.crash
              THEN pc' = "crashed" /\ app_state' = app_state
              ELSE /\ app_state' = PumpResult(app_state, out.keep_running)
                   /\ pc' = AfterPump(app_state')
    /\ UNCHANGED <<initialized, os, run_start, run_entry, api>>
    /\ logged' = <<>>
    /\ UNCHANGED <<backend, log_buf>> /\ UNCHANGED entryVars /\ UNCHANGED memVars /\ UNCHANGED pumpVars

\* a variant in which a failed update still goes on to render
UpdateFailed_StillRenders == "render"

\* a variant in which a failed update returns at once, without teardown
UpdateFailed_EarlyReturn == "return"

\* application.c:152-156 : where a failed update leads
UpdateFailed == "exit"

\* application.c:152-156 : the game's update callback
RunUpdate ==
    /\ pc = "update"
    /\ \E ok \in BOOLEAN :
         /\ calls' = Append(calls, FrameCall("update", ok))
         /\ IF ok
            THEN pc' = "render" /\ app_state' = app_state /\ logged' = <<>>
            ELSE LET f == log_output(<<>>, LOG_LEVEL_FATAL, "Game update failed.")
                 IN  /\ logged' = f.out
                     /\ IF f.returned
                        THEN /\ app_state' = [app_state EXCEPT !.is_running = FALSE]
                             /\ pc' = UpdateFailed
                        ELSE app_state' = app_state /\ pc' = "terminated"
    /\ UNCHANGED <<initialized, os, iter, clock, run_start, run_entry, api>>
    /\ UNCHANGED <<backend, log_buf>> /\ UNCHANGED entryVars /\ UNCHANGED memVars /\ UNCHANGED pumpVars

\* a variant in which a failed render goes back to the pump
RenderFailed_KeepsLooping == "pump"

\* application.c:160-164 : where a failed render leads
RenderFailed == "exit"

\* application.c:160-166 : the game's render callback, then the loop test
RunRender ==
    /\ pc = "render"
    /\ \E ok \in BOOLEAN :
         /\ calls' = Append(calls, FrameCall("render", ok))
         /\ IF ok
            THEN /\ pc' = LoopTest(app_state.is_running)
                 /\ app_state' = app_state /\ logged' = <<>>
            ELSE LET f == log_output(<<>>, LOG_LEVEL_FATAL,
                                     "Game update failed, shutting down.")
                 IN  /\ logged' = f.out
                     /\ IF f.returned
                        THEN /\ app_state' = [app_state EXCEPT !.is_running = FALSE]
                             /\ pc' = RenderFailed
                        ELSE app_state' = app_state /\ pc' = "terminated"
    /\ UNCHANGED <<initialized, os, iter, clock, run_start, run_entry, api>>
    /\ UNCHANGED <<backend, log_buf>> /\ UNCHANGED entryVars /\ UNCHANGED memVars /\ UNCHANGED pumpVars

\* application.c:169-172 : after the loop, force is_running off and shut the
\* platform down
RunExit ==
    /\ pc = "exit"
    /\ LET st == [app_state EXCEPT !.is_running = FALSE]
           sd == platform_shutdown(backend, st.platform, os)
       IN  /\ app_state' = [st EXCEPT !.platform = sd.platform]
           /\ os' = sd.os
           /\ calls' = Append(calls, Event("platform_shutdown", TRUE, sd.crash,
                                            st.is_running, st.platform.started,
                                            <<>>, "none"))
           /\ pc' = IF sd.crash THEN "crashed" ELSE "return"
    /\ UNCHANGED <<initialized, iter, clock, run_start, run_entry, api>>
    /\ logged' = <<>>
    /\ UNCHANGED <<backend, log_buf>> /\ UNCHANGED entryVars /\ UNCHANGED memVars /\ UNCHANGED pumpVars

\* application.c:174 : the value application_run returns
RunReturnValue == TRUE

\* application.c:174 : return to the caller
RunReturn ==
    /\ pc = "return"
    /\ pc' = "idle"
    /\ api' = Append(api, [fn |-> "application_run", val |-> RunReturnValue])
    /\ UNCHANGED <<initialized, app_state, os, iter, clock, calls, run_start, run_entry>>
    /\ logged' = <<>>
    /\ UNCHANGED <<backend, log_buf>> /\ UNCHANGED entryVars /\ UNCHANGED memVars /\ UNCHANGED pumpVars

(***************************************************************************)
(* Memory ledger  (core/kmemory.c, core/kmemory.h)                         *)
(*                                                                         *)
(* The u64 counters are kept as integers that stand for their residue      *)
(* modulo 2^64 (a negative n stands for 2^64 + n), so += and -= are plain  *)
(* addition and subtraction.                                               *)
(***************************************************************************)
MEMORY_TAG_UNKOWN      == 0
MEMORY_TAG_APPLICATION == 7
MEMORY_TAG_GAME        == 12
MEMORY_TAG_MAX_TAGS    == 17

Tags == 0 .. (MEMORY_TAG_MAX_TAGS - 1)

\* the sizes and tags the modelled client passes
Sizes      == {0, 1, 4}
ClientTags == {MEMORY_TAG_UNKOWN, MEMORY_TAG_APPLICATION, MEMORY_TAG_GAME}
Blocks     == [size : Sizes, tag : ClientTags]

\* initialize_memory: platform_zero_memory(&stats, sizeof(stats))
initialize_memory ==
    [total_allocated |-> 0, tagged_allocations |-> [t \in Tags |-> 0]]

\* a variant of kallocate that counts blocks, not bytes
kallocate_CountsBlocks(st, size, tag) ==
    [st EXCEPT !.total_allocated = @ + 1,
               !.tagged_allocations[tag] = @ + 1]

\* a variant of kallocate that debits the UNKNOWN slot whatever the tag
kallocate_WrongSlot(st, size, tag) ==
    [st EXCEPT !.total_allocated = @ + size,
               !.tagged_allocations[MEMORY_TAG_UNKOWN] = @ + size]

\* a variant of kallocate that forgets the total
kallocate_SkipsTotal(st, size, tag) ==
    [st EXCEPT !.tagged_allocations[tag] = @ + size]

\* kmemory.c:72-73 : the ledger update of kallocate
kallocate(st, size, tag) ==
    [st EXCEPT !.total_allocated = @ + size,
               !.tagged_allocations[tag] = @ + size]

\* a variant of kfree that credits the UNKNOWN slot whatever the tag
kfree_WrongSlot(st, size, tag) ==
    [st EXCEPT !.total_allocated = @ - size,
               !.tagged_allocations[MEMORY_TAG_UNKOWN] = @ - size]

\* a variant of kfree that leaves the tag slot alone
kfree_SkipsTag(st, size, tag) ==
    [st EXCEPT !.total_allocated = @ - size]

\* a variant of kfree whose counters stop at zero
kfree_Saturating(st, size, tag) ==
    [st EXCEPT !.total_allocated = IF @ < size THEN 0 ELSE @ - size,
               !.tagged_allocations[tag] = IF @ < size THEN 0 ELSE @ - size]

\* kmemory.c:93-94 : the ledger update of kfree
kfree(st, size, tag) ==
    [st EXCEPT !.total_allocated = @ - size,
               !.tagged_allocations[tag] = @ - size]

NoLive == [b \in Blocks |-> 0]

\* the values a byte of fresh heap memory is modelled to hold
Bytes == {0, 255}

\* what malloc(size) can hand back: size bytes of anything
RawBlocks(size) == [1 .. size -> Bytes]

\* a pointer: NULL, or a block with the bytes it holds
NullBlock == [null |-> TRUE, bytes |-> <<>>]

\* platform_allocate: malloc(size). alloc_ok: malloc found memory.
platform_allocate(alloc_ok, raw) ==
    IF alloc_ok THEN [null |-> FALSE, bytes |-> raw] ELSE NullBlock

\* a variant of the zeroing that stops one byte short
platform_zero_memory_SkipsLast(block, size) ==
    [fault |-> block.null /\ size > 0,
     block |-> IF block.null THEN block
               ELSE [block EXCEPT !.bytes =
                        [i \in DOMAIN block.bytes |->
                            IF i < size THEN 0 ELSE block.bytes[i]]]]

\* platform_zero_memory: memset(block, 0, size); writing through NULL faults
platform_zero_memory(block, size) ==
    [fault |-> block.null /\ size > 0,
     block |-> IF block.null THEN block
               ELSE [block EXCEPT !.bytes =
                        [i \in DOMAIN block.bytes |->
                            IF i <= size THEN 0 ELSE block.bytes[i]]]]

\* a variant that never warns
WarnsOn_Never(tag) == FALSE

\* kmemory.c:67-69, :88-90 : the tag that draws a warning
WarnsOn(tag) == tag = MEMORY_TAG_UNKOWN

NoMemCall == [op |-> "none", size |-> 0, tag |-> 0, block |-> NullBlock,
              ledger |-> initialize_memory]

\* a variant of kallocate's tail that takes the debit back when the platform
\* allocator gave no block
AfterAllocate_RollsBack(before, debited, block) ==
    IF block.null THEN before ELSE debited

\* kmemory.c:75-82 : after the ledger update kallocate only allocates, zeroes
\* and returns; the ledger keeps the debit whatever platform_allocate gave
AfterAllocate(before, debited, block) == debited

MemReady == mem_pc = "ok" /\ mem_calls.kallocate + mem_calls.kfree < MaxMemCalls

\* void* kallocate(u64 size, memory_tag tag). alloc_ok: platform_allocate
\* (malloc) returned a block. On NULL the following memset(NULL, size) faults
\* for size > 0 and writes nothing for size = 0; NULL is then returned and no
\* block is live.
Kallocate(size, tag, alloc_ok, raw) ==
    /\ MemReady
    /\ mem_warned' = WarnsOn(tag)
    /\ logged' = IF WarnsOn(tag)
                 THEN log_output(<<>>, LOG_LEVEL_WARN,
                         "kallocate called using MEMORY_TAG_UNKOWN. Re-class this allocation.").out
                 ELSE <<>>
    /\ mem_calls' = [mem_calls EXCEPT !.kallocate = @ + 1]
    /\ LET debited == kallocate(stats, size, tag)
           block   == platform_allocate(alloc_ok, raw)
           zeroed  == platform_zero_memory(block, size)
       IN  /\ stats' = AfterAllocate(stats, debited, block)
           /\ mem_ret' = [op |-> "kallocate", size |-> size, tag |-> tag,
                          block |-> zeroed.block, ledger |-> debited]
           /\ mem_pc' = IF zeroed.fault THEN "crashed" ELSE "ok"
           /\ live' = IF block.null THEN live
                      ELSE [live EXCEPT ![[size |-> size, tag |-> tag]] = @ + 1]
    /\ UNCHANGED <<report, heap, buf_call, threads>>
    /\ UNCHANGED <<backend, log_buf>> /\ UNCHANGED entryVars /\ UNCHANGED appVars /\ UNCHANGED pumpVars

\* void kfree(void* block, u64 size, memory_tag tag), called by a client that
\* passes the size and tag of a block it got from kallocate and still holds
KfreeMatched(b) ==
    /\ MemReady
    /\ live[b] > 0
    /\ mem_warned' = WarnsOn(b.tag)
    /\ logged' = IF WarnsOn(b.tag)
                 THEN log_output(<<>>, LOG_LEVEL_WARN,
                         "kfree called using MEMORY_TAG_UNKOWN. Re-class this allocation.").out
                 ELSE <<>>
    /\ stats' = kfree(stats, b.size, b.tag)
    /\ live' = [live EXCEPT ![b] = @ - 1]
    /\ mem_calls' = [mem_calls EXCEPT !.kfree = @ + 1]
    /\ mem_ret' = [op |-> "kfree", size |-> b.size, tag |-> b.tag,
                   block |-> NullBlock, ledger |-> kfree(stats, b.size, b.tag)]
    /\ UNCHANGED mem_pc
    /\ UNCHANGED <<report, heap, buf_call, threads>>
    /\ UNCHANGED <<backend, log_buf>> /\ UNCHANGED entryVars /\ UNCHANGED appVars /\ UNCHANGED pumpVars

(***************************************************************************)
(* get_memory_usage_str  (core/kmemory.c:117-160)                          *)
(*                                                                         *)
(* Text is kept as what printf produces: the tag name, the integer part of *)
(* the amount as decimal digits, two fraction digits, the unit suffix. A   *)
(* counter that has wrapped below zero is a u64 just under 2^64; as a      *)
(* float it is 2^64, which is 2^34 GiB.                                    *)
(***************************************************************************)
gib == 1024 * 1024 * 1024
mib == 1024 * 1024
kib == 1024

\* kmemory.c:124 : the initial contents of the buffer
ReportHeader == "System memory use (tagged):\n"

\* a variant with a buffer too small for the report
msg_length_Small == 2 * Len(ReportHeader)

\* kmemory.c:123 : enum { msg_length = 8000 }
msg_length == 8000

\* kmemory.c:33-50
memory_tag_strings ==
    [t \in Tags |->
        CASE t = 0  -> "UNKNOWN    "
          [] t = 1  -> "ARRAY      "
          [] t = 2  -> "DARRAY     "
          [] t = 3  -> "DICT       "
          [] t = 4  -> "RING_QUEUE "
          [] t = 5  -> "BST        "
          [] t = 6  -> "STRING     "
          [] t = 7  -> "APPLICATION"
          [] t = 8  -> "JOB        "
          [] t = 9  -> "TEXTURE    "
          [] t = 10 -> "MAT_INST   "
          [] t = 11 -> "RENDERER   "
          [] t = 12 -> "GAME       "
          [] t = 13 -> "TRANSFORM  "
          [] t = 14 -> "ENTITY     "
          [] t = 15 -> "ENTITY_NODE"
          [] OTHER  -> "SCENE      "]

\* a variant of CLAMP that only looks at the lower limit
CLAMP_LowerOnly(val, min, max) == IF val < min THEN min ELSE val

\* defines.h:107
CLAMP(val, min, max) == IF val < min THEN min ELSE IF val > max THEN max ELSE val

RECURSIVE Digits(_)
Digits(n) == IF n < 10 THEN <<n>> ELSE Digits(n \div 10) \o <<n % 10>>

\* n / d rounded to the nearest integer, ties to even
RoundHalfEven(n, d) ==
    LET q == n \div d
        r == n % d
    IN  IF 2 * r > d \/ (2 * r = d /\ q % 2 = 1) THEN q + 1 ELSE q

RECURSIVE FloatUlp(_)
\* the spacing of 32-bit floats around b (24 bits of mantissa)
FloatUlp(b) == IF b < 16777216 THEN 1 ELSE 2 * FloatUlp(b \div 2)

\* (float) b for 0 <= b <= 2^30
ToFloat(b) == FloatUlp(b) * RoundHalfEven(b, FloatUlp(b))

\* a variant whose thresholds are strict
UnitOf_Strict(b) ==
    IF b < 0 \/ b > gib THEN "GiB"
    ELSE IF b > mib THEN "MiB"
    ELSE IF b > kib THEN "KiB"
    ELSE "B"

\* kmemory.c:133-146 : the unit chosen for a counter
UnitOf(b) ==
    IF b < 0 \/ b >= gib THEN "GiB"
    ELSE IF b >= mib THEN "MiB"
    ELSE IF b >= kib THEN "KiB"
    ELSE "B"

UnitSize(u) ==
    CASE u = "GiB" -> gib [] u = "MiB" -> mib [] u = "KiB" -> kib [] OTHER -> 1

\* amount as "%.2f" prints it: the hundredths of (float) b / unit, the
\* division by a power of two being exact
Hundredths(b) ==
    LET u == UnitSize(UnitOf(b))
        f == ToFloat(b)
        g == IF u = gib THEN 128 ELSE 1
    IN  (f \div u) * 100 + RoundHalfEven(((f % u) \div g) * 100, u \div g)

\* the integer digits and the two fraction digits of the printed amount
AmountText(b) ==
    IF b < 0
    THEN [whole |-> <<1, 7, 1, 7, 9, 8, 6, 9, 1, 8, 4>>, frac |-> <<0, 0>>]
    ELSE LET h == Hundredths(b)
         IN  [whole |-> Digits(h \div 100),
              frac  |-> <<(h % 100) \div 10, h % 10>>]

\* the text "  %s: %.2f%s\n" produces for tag t, and its length as snprintf
\* returns it
ReportLine(st, t) ==
    LET b    == st.tagged_allocations[t]
        a    == AmountText(b)
        unit == UnitOf(b)
    IN  [name |-> memory_tag_strings[t], amount |-> a, unit |-> unit,
         length |-> 2 + Len(memory_tag_strings[t]) + 2 + Len(a.whole) + 1
                      + Len(a.frac) + Len(unit) + 1]

RECURSIVE usage_loop(_, _, _, _)
\* kmemory.c:128-154 : the loop, from tag i with the write position at offset.
\* written: the characters of the line that snprintf stored (it stores at
\* most msg_length - offset - 1 and a terminator).
usage_loop(st, i, offset, lines) ==
    IF i >= MEMORY_TAG_MAX_TAGS
    THEN [lines |-> lines, offset |-> offset]
    ELSE LET ln      == ReportLine(st, i)
             length  == CLAMP(ln.length, 0, msg_length - offset - 1)
             entry   == [tag |-> i, at |-> offset, line |-> ln, written |-> length]
         IN  usage_loop(st, i + 1, offset + length, Append(lines, entry))

get_memory_usage_str(st) == usage_loop(st, 0, Len(ReportHeader), <<>>)

NoReport == [called |-> FALSE, lines |-> <<>>, offset |-> 0, returned |-> "none"]

\* char* get_memory_usage_str(). dup_ok: _strdup found memory for the copy
\* (it returns NULL otherwise).
GetMemoryUsageStr(dup_ok) ==
    /\ ~report.called
    /\ mem_pc = "ok"
    /\ LET r == get_memory_usage_str(stats)
       IN  report' = [called |-> TRUE, lines |-> r.lines, offset |-> r.offset,
                      returned |-> IF dup_ok THEN "copy" ELSE "NULL"]
    /\ UNCHANGED <<stats, live, mem_pc, mem_warned, mem_calls, mem_ret, heap, buf_call, threads>>
    /\ logged' = <<>>
    /\ UNCHANGED <<backend, log_buf>> /\ UNCHANGED entryVars /\ UNCHANGED appVars /\ UNCHANGED pumpVars

(***************************************************************************)
(* kzero_memory, kcopy_memory  (core/kmemory.c:101-109)                    *)
(*                                                                         *)
(* heap maps the address of a buffer to the bytes it holds. A client hands *)
(* in sizes within the buffers; dest and src are distinct objects.         *)
(***************************************************************************)
\* bytes per buffer
BufLen == 3
\* kzero_memory / kcopy_memory calls a client makes
MaxBufCalls == 2

Addrs == {"dest", "src"}

BufBytes == {0, 1, 255}

\* a variant of the copy that stops one byte short
platform_copy_memory_OneShort(dest, src, size) ==
    [i \in DOMAIN dest |-> IF i < size THEN src[i] ELSE dest[i]]

\* platform_copy_memory: memcpy(dest, source, size), on the bytes of the two
\* buffers; the new bytes of dest
platform_copy_memory(dest, src, size) ==
    [i \in DOMAIN dest |-> IF i <= size THEN src[i] ELSE dest[i]]

\* kmemory.c:101-104 : returns what memset returns, its first argument
kzero_memory(h, block, size) ==
    [heap |-> [h EXCEPT ![block] =
                  platform_zero_memory([null |-> FALSE, bytes |-> h[block]], size).block.bytes],
     ret |-> block]

\* kmemory.c:106-109 : returns what memcpy returns, its first argument
kcopy_memory(h, dest, src, size) ==
    [heap |-> [h EXCEPT ![dest] = platform_copy_memory(h[dest], h[src], size)],
     ret |-> dest]

NoHeap == [a \in Addrs |-> <<>>]

NoBufCall == [op |-> "none", block |-> "dest", size |-> 0, ret |-> "none",
              before |-> NoHeap, count |-> 0]

KzeroMemory(block, size) ==
    /\ buf_call.count < MaxBufCalls
    /\ LET r == kzero_memory(heap, block, size)
       IN  /\ heap' = r.heap
           /\ buf_call' = [op |-> "kzero_memory", block |-> block, size |-> size,
                           ret |-> r.ret, before |-> heap,
                           count |-> buf_call.count + 1]
    /\ logged' = <<>>
    /\ UNCHANGED <<stats, live, mem_pc, mem_warned, mem_calls, mem_ret, report, threads>>
    /\ UNCHANGED <<backend, log_buf>> /\ UNCHANGED entryVars /\ UNCHANGED appVars /\ UNCHANGED pumpVars

KcopyMemory(dest, src, size) ==
    /\ buf_call.count < MaxBufCalls
    /\ dest # src
    /\ LET r == kcopy_memory(heap, dest, src, size)
       IN  /\ heap' = r.heap
           /\ buf_call' = [op |-> "kcopy_memory", block |-> dest, size |-> size,
                           ret |-> r.ret, before |-> heap,
                           count |-> buf_call.count + 1]
    /\ logged' = <<>>
    /\ UNCHANGED <<stats, live, mem_pc, mem_warned, mem_calls, mem_ret, report, threads>>
    /\ UNCHANGED <<backend, log_buf>> /\ UNCHANGED entryVars /\ UNCHANGED appVars /\ UNCHANGED pumpVars

\* void kfree(void* block, u64 size, memory_tag tag), called with a block b
\* the client still holds but with a size or tag other than the one b was
\* allocated with
KfreeMismatched(b, size, tag) ==
    /\ MemReady
    /\ live[b] > 0
    /\ size # b.size \/ tag # b.tag
    /\ mem_warned' = WarnsOn(tag)
    /\ logged' = IF WarnsOn(tag)
                 THEN log_output(<<>>, LOG_LEVEL_WARN,
                         "kfree called using MEMORY_TAG_UNKOWN. Re-class this allocation.").out
                 ELSE <<>>
    /\ stats' = kfree(stats, size, tag)
    /\ live' = [live EXCEPT ![b] = @ - 1]
    /\ mem_calls' = [mem_calls EXCEPT !.kfree = @ + 1]
    /\ mem_ret' = [op |-> "kfree", size |-> size, tag |-> tag, block |-> NullBlock,
                   ledger |-> kfree(stats, size, tag)]
    /\ UNCHANGED mem_pc
    /\ UNCHANGED <<report, heap, buf_call, threads>>
    /\ UNCHANGED <<backend, log_buf>> /\ UNCHANGED entryVars /\ UNCHANGED appVars /\ UNCHANGED pumpVars

(***************************************************************************)
(* log_output as writes to its buffer (logger.c:55-89). n is what          *)
(* vsnprintf returns: the length the formatted message would have, or a    *)
(* negative value on an encoding error.                                    *)
(***************************************************************************)
\* logger.c:60 : sizeof(out_message)
sizeof_out_message == 32000

\* a value above every buffer size, standing for what (size_t) makes of a
\* negative int
HugeSizeT == 1073741824

\* logger.c:77 : (size_t)vsnprintf(...)
AsSizeT(n) == IF n < 0 THEN HugeSizeT ELSE n

\* the last index snprintf(buf + at, size, ...) writes for a text of n
\* characters: at most size - 1 characters and the terminator
LastWritten(at, size, n) == at + (IF n < size THEN n ELSE size - 1)

\* logger.c:60-84 : the indices of out_message that one call writes
log_output_buffer(level, n) ==
    LET size       == sizeof_out_message
        prefix_raw == Len(level_strings[level])
        prefix_len == CLAMP(prefix_raw, 0, size - 1)
        msg_len    == CLAMP(AsSizeT(n), 0, size - prefix_len - 1)
        total_len  == CLAMP(prefix_len + msg_len, 0, size - 2)
    IN  [called |-> TRUE, level |-> level, n |-> n,
         memset_hi  |-> size - 1,
         prefix_hi  |-> LastWritten(0, size, prefix_raw),
         msg_lo     |-> prefix_len,
         msg_hi     |-> IF n < 0 THEN prefix_len
                        ELSE LastWritten(prefix_len, size - prefix_len, n),
         newline_at |-> total_len,
         nul_at     |-> total_len + 1]

NoLogBuf == [called |-> FALSE, level |-> LOG_LEVEL_FATAL, n |-> 0,
             memset_hi |-> 0, prefix_hi |-> 0, msg_lo |-> 0, msg_hi |-> 0,
             newline_at |-> 0, nul_at |-> 0]

\* void log_output(log_level level, const char* message, ...)
LogOutput(level, n) ==
    /\ log_buf' = log_output_buffer(level, n)
    /\ logged' = <<>>
    /\ UNCHANGED backend
    /\ UNCHANGED entryVars /\ UNCHANGED appVars /\ UNCHANGED memVars /\ UNCHANGED pumpVars

(***************************************************************************)
(* kallocate / kfree run by threads (kmemory.c:65-99). stats is a file     *)
(* static with no lock around it; `stats.total_allocated += size` is a     *)
(* load of the counter followed by a store of the sum, and another         *)
(* thread's load or store can fall between the two.                        *)
(***************************************************************************)
\* matched kallocate/kfree pairs each thread runs
MaxPairs == 1

ThreadIds == {1, 2}
ThreadSizes == {1, 4}
ThreadTags == {MEMORY_TAG_APPLICATION, MEMORY_TAG_GAME}

\* a thread that runs nothing
IdleThread == [op |-> "done", field |-> "total", phase |-> "load", reg |-> 0,
               size |-> 0, tag |-> MEMORY_TAG_UNKOWN, pairs |-> 0]

\* a thread about to call kallocate(size, tag) and then kfree(block, size, tag)
FreshThread(size, tag) ==
    [op |-> "kallocate", field |-> "total", phase |-> "load", reg |-> 0,
     size |-> size, tag |-> tag, pairs |-> 0]

NoThreads == [active |-> {}, start |-> initialize_memory,
              t |-> [i \in ThreadIds |-> IdleThread]]

\* a variant of the update in which kfree adds as kallocate does
LedgerDelta_AlwaysAdds(op, size) == size

\* kmemory.c:71-72 add size, kmemory.c:92-93 subtract it
LedgerDelta(op, size) == IF op = "kallocate" THEN size ELSE 0 - size

\* the load half of `counter += size` / `counter -= size`
LoadCounter(st, field, tag) ==
    IF field = "total" THEN st.total_allocated ELSE st.tagged_allocations[tag]

\* the store half
StoreCounter(st, field, tag, value) ==
    IF field = "total"
    THEN [st EXCEPT !.total_allocated = value]
    ELSE [st EXCEPT !.tagged_allocations[tag] = value]

\* where a thread stands once it has stored a counter: total_allocated is
\* followed by the tag slot, the tag slot of kallocate by the kfree of the
\* same block, the tag slot of kfree by the next pair
AfterStore(th) ==
    IF th.field = "total"
    THEN [th EXCEPT !.field = "tag", !.phase = "load"]
    ELSE IF th.op = "kallocate"
         THEN [th EXCEPT !.op = "kfree", !.field = "total", !.phase = "load"]
         ELSE [th EXCEPT !.op = IF th.pairs + 1 < MaxPairs THEN "kallocate" ELSE "done",
                         !.field = "total", !.phase = "load",
                         !.pairs = @ + 1]

ThreadLoad(i) ==
    /\ i \in threads.active
    /\ threads.t[i].op # "done" /\ threads.t[i].phase = "load"
    /\ threads' = [threads EXCEPT
                     !.t[i].reg = LoadCounter(stats, threads.t[i].field, threads.t[i].tag),
                     !.t[i].phase = "store"]
    /\ logged' = <<>>
    /\ UNCHANGED <<stats, live, mem_pc, mem_warned, mem_calls, mem_ret, report,
                   heap, buf_call>>
    /\ UNCHANGED <<backend, log_buf>> /\ UNCHANGED entryVars /\ UNCHANGED appVars /\ UNCHANGED pumpVars

ThreadStore(i) ==
    /\ i \in threads.active
    /\ threads.t[i].op # "done" /\ threads.t[i].phase = "store"
    /\ LET th == threads.t[i]
       IN  /\ stats' = StoreCounter(stats, th.field, th.tag,
                                    th.reg + LedgerDelta(th.op, th.size))
           /\ threads' = [threads EXCEPT !.t[i] = AfterStore(th)]
    /\ logged' = <<>>
    /\ UNCHANGED <<live, mem_pc, mem_warned, mem_calls, mem_ret, report, heap, buf_call>>
    /\ UNCHANGED <<backend, log_buf>> /\ UNCHANGED entryVars /\ UNCHANGED appVars /\ UNCHANGED pumpVars

\* not running under one of the two main functions
NoGame == [id |-> "null", ret |-> "pending", slots |-> {}]
NoExit == [status |-> 0, report |-> "none"]

EntryIdle ==
    /\ main_pc = "none" /\ game = NoGame /\ exit = NoExit
    /\ tb_state = NullPlatform

MemIdle ==
    /\ stats = initialize_memory
    /\ live = NoLive /\ mem_pc = "ok" /\ mem_warned = FALSE
    /\ mem_calls = [kallocate |-> 0, kfree |-> 0]
    /\ mem_ret = NoMemCall
    /\ report = NoReport
    /\ heap = NoHeap /\ buf_call = NoBufCall /\ threads = NoThreads

AppIdle ==
    /\ initialized = FALSE
    /\ app_state = AppStateInit
    /\ os = OsInit
    /\ pc = "idle"
    /\ iter = 0
    /\ clock = 0
    /\ logged = <<>>
    /\ calls = <<>>
    /\ run_start = 0
    /\ run_entry = NoEntry
    /\ api = <<>>



(***************************************************************************)
(* Spec: a client of application.h                                         *)
(***************************************************************************)
Init ==
    /\ backend \in Backends
    /\ log_buf = NoLogBuf
    /\ initialized = FALSE
    /\ app_state = AppStateInit
    /\ os = OsInit
    /\ pc = "idle"
    /\ iter = 0
    /\ clock = 0
    /\ logged = <<>>
    /\ calls = <<>>
    /\ run_start = 0
    /\ run_entry = NoEntry
    /\ api = <<>>
    /\ MemIdle
    /\ PumpIdle
    /\ EntryIdle

Next ==
    \/ \E g \in Games : \E fail \in StartupFailures(backend) : \E init_ok \in BOOLEAN :
          ApplicationCreate(g, fail, init_ok)
    \/ RunEnter
    \/ RunPump
    \/ RunUpdate
    \/ RunRender
    \/ RunExit
    \/ RunReturn

Spec == Init /\ [][Next]_vars

(***************************************************************************)
(* SpecRun: application_run as a unit. Its inputs are the static app_state *)
(* fields it reads; the platform is one that platform_startup started.     *)
(***************************************************************************)
InitRun ==
    /\ backend \in Backends
    /\ log_buf = NoLogBuf
    /\ initialized = TRUE
    /\ \E g \in Games, r \in BOOLEAN, u \in BOOLEAN :
          app_state = [game_inst |-> g, is_running |-> r, is_suspended |-> u,
                       platform |-> platform_startup(backend, OsInit, "none").platform,
                       last_time |-> 0]
    /\ os = platform_startup(backend, OsInit, "none").os
    /\ pc = "idle"
    /\ iter = 0
    /\ clock = 0
    /\ logged = <<>>
    /\ calls = <<>>
    /\ run_start = 0
    /\ run_entry = NoEntry
    /\ api = <<>>
    /\ MemIdle
    /\ PumpIdle
    /\ EntryIdle

NextRun ==
    \/ RunEnter
    \/ RunPump
    \/ RunUpdate
    \/ RunRender
    \/ RunExit
    \/ RunReturn

SpecRun == InitRun /\ [][NextRun]_vars

\* the steps application_run takes by itself once it was entered: the thread
\* that runs it keeps executing, and every pump and callback call returns
RunStep == RunPump \/ RunUpdate \/ RunRender \/ RunExit \/ RunReturn

SpecRunFair == InitRun /\ [][NextRun]_vars /\ WF_vars(RunStep)

(***************************************************************************)
(* SpecMem: the ledger after initialize_memory, used by a client whose     *)
(* frees match its allocations                                             *)
(***************************************************************************)
InitMem ==
    /\ backend \in Backends
    /\ log_buf = NoLogBuf
    /\ AppIdle
    /\ MemIdle
    /\ PumpIdle
    /\ EntryIdle

NextMem ==
    \/ \E size \in Sizes, tag \in ClientTags, alloc_ok \in BOOLEAN :
          \E raw \in RawBlocks(size) : Kallocate(size, tag, alloc_ok, raw)
    \/ \E b \in Blocks : KfreeMatched(b)

SpecMem == InitMem /\ [][NextMem]_vars

(***************************************************************************)
(* SpecMemAny: a client whose kfree calls need not match its allocations   *)
(***************************************************************************)
\* allocations the client of SpecMemAny makes
MaxAnyAllocs == 2

NextMemAny ==
    \/ /\ mem_calls.kallocate < MaxAnyAllocs
       /\ \E size \in Sizes, tag \in ClientTags, alloc_ok \in BOOLEAN :
             \E raw \in RawBlocks(size) : Kallocate(size, tag, alloc_ok, raw)
    \/ \E b \in Blocks : KfreeMatched(b)
    \/ \E b \in Blocks, size \in Sizes, tag \in ClientTags :
          KfreeMismatched(b, size, tag)

SpecMemAny == InitMem /\ [][NextMemAny]_vars

(***************************************************************************)
(* Reading the call log                                                    *)
(***************************************************************************)
InRun == pc \in {"pump", "update", "render", "exit", "return"}

\* application_run has returned and nothing was called since
RunJustReturned ==
    pc = "idle" /\ api # <<>> /\ Last(api).fn = "application_run"

\* the calls of the application_run that is in progress or has just returned
RunLog == SubSeq(calls, run_start + 1, Len(calls))

Ops(log) == [i \in DOMAIN log |-> log[i].op]

CountOp(log, op) == Cardinality({i \in DOMAIN log : log[i].op = op})

CallbackFailed(log) ==
    \E i \in DOMAIN log : log[i].op \in {"update", "render"} /\ ~log[i].ret

\* <<pump, update, render>> repeated n times
RECURSIVE Frames(_)
Frames(n) == IF n = 0 THEN <<>> ELSE Frames(n - 1) \o <<"pump", "update", "render">>


(***************************************************************************)
(* SpecPump                                                                *)
(***************************************************************************)
InitPump ==
    /\ backend \in Backends
    /\ log_buf = NoLogBuf
    /\ AppIdle
    /\ MemIdle
    /\ PumpIdle
    /\ EntryIdle

NextPump ==
    \/ \E e \in OsEvents(backend) : OsPost(e)
    \/ PumpMessages

SpecPump == InitPump /\ [][NextPump]_vars

(***************************************************************************)
(* SpecEntry: the two process entry points                                 *)
(*   main() of engine/src/entry.h      main_pc "start" .. "exited"         *)
(*   main() of testbed/src/main.c      main_pc "tb_start" .. "exited"      *)
(* A fault (NULL dereference) ends the process by SIGSEGV.                 *)
(***************************************************************************)
\* game_types.h: the four function pointers of a game
Slots == {"initilize", "update", "render", "on_resize"}

\* testbed/src/game.h: sizeof(game_state), one f32
sizeof_game_state == 4

\* the process exit status of a value returned by main
ExitStatus(code) == code % 256

\* termination by SIGSEGV as the shell reports it
SIGSEGV_STATUS == 128 + 11

\* a variant of the check that does not look at on_resize
SlotsAssigned_ForgetsResize(slots) ==
    {"render", "update", "initilize"} \subseteq slots

\* entry.h:51 : the four function pointers are all non-null
SlotsAssigned(slots) ==
    {"render", "update", "initilize", "on_resize"} \subseteq slots

\* a variant that goes on to application_run whatever application_create said
AfterCreate_IgnoresResult(val) == "run"

\* entry.h:58-65 : where main goes once application_create has returned
AfterCreate(val) == IF val THEN "run" ELSE "exited"

\* entry.h:46, :52 use KERROR, :59, :66 use KINFO
ExitLogLevel(code) == IF code < 0 THEN LOG_LEVEL_ERROR ELSE LOG_LEVEL_INFO

Exited(code, msg) ==
    /\ main_pc' = "exited"
    /\ exit' = [status |-> ExitStatus(code), report |-> msg]
    /\ logged' = IF msg = "none" THEN <<>>
                 ELSE log_output(<<>>, ExitLogLevel(code), msg).out

\* entry.h:41 : initialize_memory()
MainInitializeMemory ==
    /\ main_pc = "start"
    /\ stats' = initialize_memory
    /\ main_pc' = "create_game"
    /\ UNCHANGED <<live, mem_pc, mem_warned, mem_calls, mem_ret, report, heap, buf_call, threads>>
    /\ UNCHANGED <<game, exit, tb_state>>
    /\ logged' = <<>>
    /\ UNCHANGED <<backend, log_buf>> /\ UNCHANGED appVars /\ UNCHANGED pumpVars

\* entry.h:44-48 : game_inst is an uninitialized local that the externally
\* supplied create_game fills. ret is what create_game returns, slots the
\* function pointers that are non-null afterwards; like the testbed's
\* create_game (entry.c:27-49) it allocates its game_state with kallocate.
MainCreateGame(g, ret, slots, alloc_ok, raw) ==
    /\ main_pc = "create_game"
    /\ stats' = kallocate(stats, sizeof_game_state, MEMORY_TAG_GAME)
    /\ mem_warned' = WarnsOn(MEMORY_TAG_GAME)
    /\ mem_calls' = [mem_calls EXCEPT !.kallocate = @ + 1]
    /\ mem_ret' = [op |-> "kallocate", size |-> sizeof_game_state,
                   tag |-> MEMORY_TAG_GAME,
                   block |-> platform_zero_memory(platform_allocate(alloc_ok, raw),
                                                  sizeof_game_state).block,
                   ledger |-> kallocate(stats, sizeof_game_state, MEMORY_TAG_GAME)]
    /\ IF alloc_ok
       THEN /\ live' = [live EXCEPT ![[size |-> sizeof_game_state,
                                       tag |-> MEMORY_TAG_GAME]] = @ + 1]
            /\ mem_pc' = "ok"
            /\ game' = [id |-> g, ret |-> IF ret THEN "TRUE" ELSE "FALSE",
                        slots |-> slots]
            /\ IF ret
               THEN main_pc' = "check" /\ exit' = exit /\ logged' = <<>>
               ELSE Exited(-1, "Could not create game!")
       ELSE /\ live' = live
            /\ mem_pc' = "crashed"
            /\ game' = [id |-> g, ret |-> "crashed", slots |-> slots]
            /\ logged' = <<>>
            /\ main_pc' = "exited"
            /\ exit' = [status |-> SIGSEGV_STATUS, report |-> "none"]
    /\ UNCHANGED <<tb_state, report, heap, buf_call, threads>>
    /\ UNCHANGED <<backend, log_buf>> /\ UNCHANGED appVars /\ UNCHANGED pumpVars

\* entry.h:51-54
MainCheckSlots ==
    /\ main_pc = "check"
    /\ IF SlotsAssigned(game.slots)
       THEN main_pc' = "create" /\ exit' = exit /\ logged' = <<>>
       ELSE Exited(-2, "The game's function pointers must be assigned")
    /\ UNCHANGED <<game, tb_state>>
    /\ UNCHANGED <<backend, log_buf>> /\ UNCHANGED appVars /\ UNCHANGED memVars
    /\ UNCHANGED pumpVars

\* entry.h:58 : the call application_create(&game_inst)
MainCallCreate(fail, init_ok) ==
    /\ main_pc = "create"
    /\ api = <<>>
    /\ ApplicationCreate(game.id, fail, init_ok)

\* entry.h:58-61 : application_create has returned
MainAfterCreate ==
    /\ main_pc = "create"
    /\ pc = "idle"
    /\ Len(api) = 1
    /\ IF AfterCreate(Last(api).val) = "run"
       THEN main_pc' = "run" /\ exit' = exit /\ logged' = <<>>
       ELSE Exited(1, "Application failed to create!")
    /\ UNCHANGED <<game, tb_state>>
    /\ UNCHANGED <<backend, log_buf>> /\ UNCHANGED appVars /\ UNCHANGED memVars
    /\ UNCHANGED pumpVars

\* entry.h:65 : the call application_run()
MainCallRun ==
    /\ main_pc = "run"
    /\ Len(api) = 1
    /\ RunEnter

\* entry.h:65-74 : application_run has returned; shutdown_memory() is empty
MainAfterRun ==
    /\ main_pc = "run"
    /\ pc = "idle"
    /\ Len(api) = 2
    /\ IF Last(api).val
       THEN Exited(0, "none")
       ELSE Exited(2, "Application did not shutdown gracefully!")
    /\ UNCHANGED <<game, tb_state>>
    /\ UNCHANGED <<backend, log_buf>> /\ UNCHANGED appVars /\ UNCHANGED memVars
    /\ UNCHANGED pumpVars

\* a fault inside application_create or application_run ends the process
MainFaulted ==
    /\ main_pc \in {"create", "run"}
    /\ pc = "crashed"
    /\ main_pc' = "exited"
    /\ exit' = [status |-> SIGSEGV_STATUS, report |-> "none"]
    /\ UNCHANGED <<game, tb_state>>
    /\ logged' = <<>>
    /\ UNCHANGED <<backend, log_buf>> /\ UNCHANGED appVars /\ UNCHANGED memVars
    /\ UNCHANGED pumpVars

\* main.c:37 : the arguments of the testbed's platform_startup call
TbStartupArgs == <<"Kaffi Engine Testbed", 100, 100, 1280, 720>>

\* main.c:37-46 : where the testbed goes once platform_startup has returned
TbAfterStartup(ret) == IF ret THEN "tb_loop" ELSE "tb_shutdown"

\* main.c:34-37 : platform_startup(&state, ...) on the local platform_state
TbStartup(fail) ==
    /\ main_pc = "tb_start"
    /\ LET su == platform_startup(backend, os, fail)
           t  == log_each(<<>>, TestMessages)
           f  == log_each(t.out, StartupLog(backend, os, fail))
       IN  IF ~t.returned
           THEN /\ logged' = t.out
                /\ main_pc' = "exited" /\ exit' = LogAborted
                /\ UNCHANGED <<calls, tb_state, os>>
           ELSE
           /\ calls' = Append(calls, Event("platform_startup", su.ret, su.crash,
                                           TRUE, tb_state.started, TbStartupArgs, fail))
           /\ tb_state' = su.platform
           /\ os' = su.os
           /\ logged' = f.out
           /\ IF su.crash
              THEN /\ main_pc' = "exited"
                   /\ exit' = [status |-> SIGSEGV_STATUS, report |-> "none"]
              ELSE IF ~f.returned
              THEN main_pc' = "exited" /\ exit' = LogAborted
              ELSE /\ main_pc' = TbAfterStartup(su.ret)
                   /\ exit' = exit
    /\ UNCHANGED <<initialized, app_state, pc, iter, clock, run_start, run_entry, api>>
    /\ UNCHANGED <<backend, log_buf, game>> /\ UNCHANGED memVars /\ UNCHANGED pumpVars

\* main.c:43-45 : while (platform_pump_messages(&state)) {}
TbPump ==
    /\ main_pc = "tb_loop"
    /\ iter < MaxIter
    /\ \E q \in Batches(backend, tb_state) :
         \E out \in PumpOutcomes(backend, tb_state, q) :
           /\ calls' = Append(calls, Event("pump", out.keep_running, out.crash,
                                           TRUE, tb_state.started, <<>>, "none"))
           /\ iter' = iter + 1
           /\ clock' = clock + FrameTime
           /\ IF out.crash
              THEN /\ main_pc' = "exited"
                   /\ exit' = [status |-> SIGSEGV_STATUS, report |-> "none"]
              ELSE /\ main_pc' = IF out.keep_running THEN "tb_loop" ELSE "tb_shutdown"
                   /\ exit' = exit
    /\ UNCHANGED <<initialized, app_state, os, pc, run_start, run_entry, api>>
    /\ logged' = <<>>
    /\ UNCHANGED <<backend, log_buf, game, tb_state>> /\ UNCHANGED memVars
    /\ UNCHANGED pumpVars

\* main.c:49-52 : platform_shutdown(&state); return 0;
TbShutdown ==
    /\ main_pc = "tb_shutdown"
    /\ LET sd == platform_shutdown(backend, tb_state, os)
       IN  /\ calls' = Append(calls, Event("platform_shutdown", TRUE, sd.crash,
                                           TRUE, tb_state.started, <<>>, "none"))
           /\ tb_state' = sd.platform
           /\ os' = sd.os
           /\ main_pc' = "exited"
           /\ exit' = IF sd.crash
                      THEN [status |-> SIGSEGV_STATUS, report |-> "none"]
                      ELSE [status |-> ExitStatus(0), report |-> "none"]
    /\ UNCHANGED <<initialized, app_state, pc, iter, clock, run_start, run_entry, api>>
    /\ logged' = <<>>
    /\ UNCHANGED <<backend, log_buf, game>> /\ UNCHANGED memVars /\ UNCHANGED pumpVars

InitEntry ==
    /\ backend \in Backends
    /\ log_buf = NoLogBuf
    /\ initialized = FALSE
    /\ app_state = AppStateInit
    /\ os = OsInit
    /\ pc = "idle"
    /\ iter = 0
    /\ clock = 0
    /\ logged = <<>>
    /\ calls = <<>>
    /\ run_start = 0
    /\ run_entry = NoEntry
    /\ api = <<>>
    /\ MemIdle
    /\ PumpIdle
    /\ main_pc \in {"start", "tb_start"}
    /\ game = NoGame /\ exit = NoExit /\ tb_state = NullPlatform

NextEntry ==
    \/ MainInitializeMemory
    \/ \E g \in Games, ret \in BOOLEAN, slots \in SUBSET Slots, alloc_ok \in BOOLEAN :
          \E raw \in RawBlocks(sizeof_game_state) :
             MainCreateGame(g, ret, slots, alloc_ok, raw)
    \/ MainCheckSlots
    \/ \E fail \in StartupFailures(backend), init_ok \in BOOLEAN :
          MainCallCreate(fail, init_ok)
    \/ MainAfterCreate
    \/ MainCallRun
    \/ RunPump
    \/ RunUpdate
    \/ RunRender
    \/ RunExit
    \/ RunReturn
    \/ MainAfterRun
    \/ MainFaulted
    \/ \E fail \in StartupFailures(backend) : TbStartup(fail)
    \/ TbPump
    \/ TbShutdown

SpecEntry == InitEntry /\ [][NextEntry]_vars

(***************************************************************************)
(* SpecReport: get_memory_usage_str on a ledger whose counters sit at and  *)
(* around the unit thresholds, or have wrapped below zero                  *)
(***************************************************************************)
ReportValues ==
    {0, 1, 1023, 1024, 1536, 1048575, 1048576, 1073741823, 1073741824,
     -1, -1073741824}

ReportLedgers ==
    { [total_allocated |-> u + g + s,
       tagged_allocations |->
          [t \in Tags |-> CASE t = MEMORY_TAG_UNKOWN -> u
                            [] t = MEMORY_TAG_GAME -> g
                            [] t = MEMORY_TAG_MAX_TAGS - 1 -> s
                            [] OTHER -> 0]] :
        u \in ReportValues, g \in {0, sizeof_game_state},
        s \in ReportValues \ {1073741823, 1073741824, -1073741824} }

InitReport ==
    /\ backend \in Backends
    /\ log_buf = NoLogBuf
    /\ AppIdle
    /\ PumpIdle
    /\ EntryIdle
    /\ stats \in ReportLedgers
    /\ live = NoLive /\ mem_pc = "ok" /\ mem_warned = FALSE
    /\ mem_calls = [kallocate |-> 0, kfree |-> 0]
    /\ mem_ret = NoMemCall
    /\ report = NoReport
    /\ heap = NoHeap /\ buf_call = NoBufCall /\ threads = NoThreads

NextReport == \E dup_ok \in BOOLEAN : GetMemoryUsageStr(dup_ok)

SpecReport == InitReport /\ [][NextReport]_vars

(***************************************************************************)
(* SpecBytes: kzero_memory and kcopy_memory on two buffers of any contents *)
(***************************************************************************)
InitBytes ==
    /\ backend \in Backends
    /\ log_buf = NoLogBuf
    /\ AppIdle
    /\ PumpIdle
    /\ EntryIdle
    /\ stats = initialize_memory
    /\ live = NoLive /\ mem_pc = "ok" /\ mem_warned = FALSE
    /\ mem_calls = [kallocate |-> 0, kfree |-> 0]
    /\ mem_ret = NoMemCall
    /\ report = NoReport
    /\ heap \in [Addrs -> [1 .. BufLen -> BufBytes]]
    /\ buf_call = NoBufCall /\ threads = NoThreads

NextBytes ==
    \/ \E block \in Addrs, size \in 0 .. BufLen : KzeroMemory(block, size)
    \/ \E size \in 0 .. BufLen : KcopyMemory("dest", "src", size)

SpecBytes == InitBytes /\ [][NextBytes]_vars

(***************************************************************************)
(* SpecThreads: one or two threads running matched kallocate/kfree pairs   *)
(* on the shared ledger                                                    *)
(***************************************************************************)
\* the ledgers the threads start from
ThreadLedgers ==
    {initialize_memory, kallocate(initialize_memory, 4, MEMORY_TAG_GAME)}

InitThreads ==
    /\ backend \in Backends
    /\ log_buf = NoLogBuf
    /\ AppIdle
    /\ PumpIdle
    /\ EntryIdle
    /\ stats \in ThreadLedgers
    /\ live = NoLive /\ mem_pc = "ok" /\ mem_warned = FALSE
    /\ mem_calls = [kallocate |-> 0, kfree |-> 0]
    /\ mem_ret = NoMemCall
    /\ report = NoReport
    /\ heap = NoHeap /\ buf_call = NoBufCall
    /\ \E active \in {{1}, {1, 2}} :
       \E f \in [active -> [size : ThreadSizes, tag : ThreadTags]] :
          threads = [active |-> active, start |-> stats,
                     t |-> [i \in ThreadIds |->
                              IF i \in active
                              THEN FreshThread(f[i].size, f[i].tag)
                              ELSE IdleThread]]

NextThreads ==
    \/ \E i \in ThreadIds : ThreadLoad(i)
    \/ \E i \in ThreadIds : ThreadStore(i)

SpecThreads == InitThreads /\ [][NextThreads]_vars

(***************************************************************************)
(* SpecLog: log_output calls of every level with messages around the       *)
(* buffer size                                                             *)
(***************************************************************************)
\* what vsnprintf returns for the messages tried
MessageLengths ==
    {-1, 0, 1, 100} \cup (31986 .. 31994) \cup {sizeof_out_message, 40000}

InitLog ==
    /\ backend \in Backends
    /\ log_buf = NoLogBuf
    /\ AppIdle
    /\ MemIdle
    /\ PumpIdle
    /\ EntryIdle

NextLog == \E level \in LogLevels, n \in MessageLengths : LogOutput(level, n)

SpecLog == InitLog /\ [][NextLog]_vars

(***************************************************************************)
(* Claims about the application lifecycle                                  *)
(***************************************************************************)

\* C1: every application_run that enters with a started platform calls
\* platform_shutdown exactly once: not before the loop is left, and, once it
\* has returned, as the last call of the run, made with is_running FALSE and
\* after every pump, update and render call, however the loop ended.
C1_ShutdownExactlyOnce ==
    run_entry.started =>
        /\ pc \in {"pump", "update", "render", "exit"} =>
              CountOp(RunLog, "platform_shutdown") = 0
        /\ (pc = "return" \/ RunJustReturned) =>
              /\ CountOp(RunLog, "platform_shutdown") = 1
              /\ Last(RunLog).op = "platform_shutdown"
              /\ ~Last(RunLog).crash
              /\ ~Last(RunLog).running
              /\ ~app_state.is_running
              /\ ~app_state.platform.started

\* a run on a started platform has returned after its update callback failed
C1_Witness ==
    /\ RunJustReturned /\ run_entry.started
    /\ \E i \in DOMAIN RunLog : RunLog[i].op = "update" /\ ~RunLog[i].ret
    /\ CountOp(RunLog, "platform_shutdown") = 1

\* a step of the client that is a call of application_create (RunEnter is the
\* only other step from "idle", and it moves pc into the loop)
IsCreateStep ==
    /\ pc = "idle" /\ pc' \in {"idle", "crashed"}
    /\ <<api, calls, app_state, initialized, os, pc>>' #
       <<api, calls, app_state, initialized, os, pc>>

CreateSucceededBefore ==
    \E i \in DOMAIN api : api[i] = [fn |-> "application_create", val |-> TRUE]

\* C4: an application_create call made after an earlier one returned success
\* returns FALSE and changes nothing: game_inst, is_running, is_suspended and
\* the platform keep their values and no platform or game call is made.
C4_SecondCreateRejected ==
    [][ (CreateSucceededBefore /\ IsCreateStep) =>
            /\ api' = Append(api, [fn |-> "application_create", val |-> FALSE])
            /\ UNCHANGED <<app_state, initialized, os, calls, pc>> ]_vars

\* a create was rejected after an earlier create had succeeded
C4_Witness ==
    \E i, j \in DOMAIN api :
        /\ i < j
        /\ api[i] = [fn |-> "application_create", val |-> TRUE]
        /\ api[j] = [fn |-> "application_create", val |-> FALSE]
        /\ app_state.game_inst # "null"

\* C5: when update returns failure, render is not called in that iteration,
\* nothing but platform_shutdown is called afterwards in that run, and the
\* shutdown is made before application_run returns.
C5_UpdateFailureStopsLoop ==
    \A i \in DOMAIN calls :
        (calls[i].op = "update" /\ ~calls[i].ret) =>
            IF i = Len(calls) THEN pc = "exit"
            ELSE calls[i + 1].op = "platform_shutdown"

\* update failed in the third iteration of a run that has since returned
C5_Witness ==
    /\ RunJustReturned /\ run_entry.started
    /\ Ops(RunLog) = Frames(2) \o <<"pump", "update", "platform_shutdown">>
    /\ ~RunLog[8].ret

\* C6 as stated: no update or render call follows, in the same run, a pump
\* call that returned stop.
C6_NoCallbackAfterStop ==
    (run_entry.started /\ (InRun \/ RunJustReturned)) =>
        \A i \in DOMAIN RunLog :
            (RunLog[i].op = "pump" /\ ~RunLog[i].ret) =>
                \A j \in DOMAIN RunLog :
                    j > i => RunLog[j].op \notin {"update", "render"}

\* C6 amended: after a pump call that returned stop no further pump call is
\* made and is_running is FALSE, but the iteration is completed: what follows
\* in the run is update, then render, then platform_shutdown (update and
\* render left out when suspended, render when update failed).
C6_StopEndsLoopAfterIteration ==
    (run_entry.started /\ (InRun \/ RunJustReturned)) =>
        \A i \in DOMAIN RunLog :
            (RunLog[i].op = "pump" /\ ~RunLog[i].ret) =>
                /\ ~app_state.is_running
                /\ Ops(SubSeq(RunLog, i + 1, Len(RunLog))) \in
                      {<<>>, <<"update">>, <<"update", "render">>,
                       <<"update", "platform_shutdown">>,
                       <<"update", "render", "platform_shutdown">>,
                       <<"platform_shutdown">>}
                /\ (Len(RunLog) = i /\ ~run_entry.suspended) => pc = "update"

\* the pump returned stop, and update and render of that iteration still ran
C6_Witness ==
    /\ RunJustReturned /\ run_entry.started
    /\ \E i \in DOMAIN RunLog :
          /\ RunLog[i].op = "pump" /\ ~RunLog[i].ret
          /\ Ops(SubSeq(RunLog, i + 1, Len(RunLog))) =
                <<"update", "render", "platform_shutdown">>

\* C7: not suspended, every update and render succeeds, the pump returns stop
\* for the first time on its N-th call: the run consists of N times
\* pump-update-render, then platform_shutdown, and returns TRUE.
C7_StopAfterN ==
    (RunJustReturned /\ run_entry.started /\ ~run_entry.suspended
        /\ ~CallbackFailed(RunLog)) =>
        LET N == CountOp(RunLog, "pump")
        IN  /\ N >= 1
            /\ Ops(RunLog) = Frames(N) \o <<"platform_shutdown">>
            /\ \A k \in 1..N : RunLog[3 * k - 2].ret = (k < N)
            /\ CountOp(RunLog, "update") = N
            /\ CountOp(RunLog, "render") = N
            /\ Last(api).val = TRUE

\* the pump returned stop on its third call and the run has returned
C7_Witness ==
    /\ RunJustReturned /\ run_entry.started /\ ~run_entry.suspended
    /\ ~CallbackFailed(RunLog)
    /\ CountOp(RunLog, "pump") = 3
    /\ ~RunLog[7].ret
    /\ Len(RunLog) = 10

\* C8: while is_suspended is TRUE the loop still calls the pump and calls
\* neither update nor render; while it is FALSE every pump is followed by
\* update, and render comes only right after a successful update.
C8_SuspendSkipsCallbacks ==
    (InRun \/ RunJustReturned) =>
        /\ run_entry.suspended =>
              /\ \A i \in DOMAIN RunLog : RunLog[i].op \in {"pump", "platform_shutdown"}
              /\ (run_entry.running /\ pc \in {"exit", "return", "idle"}) =>
                    CountOp(RunLog, "pump") >= 1
              /\ pc \notin {"update", "render"}
        /\ ~run_entry.suspended =>
              \A i \in DOMAIN RunLog :
                  /\ RunLog[i].op = "update" => (i > 1 /\ RunLog[i - 1].op = "pump")
                  /\ RunLog[i].op = "render" =>
                        (i > 2 /\ RunLog[i - 1].op = "update" /\ RunLog[i - 1].ret
                               /\ RunLog[i - 2].op = "pump")
                  /\ (RunLog[i].op = "pump" /\ ~RunLog[i].crash) =>
                        IF i = Len(RunLog) THEN pc = "update"
                        ELSE RunLog[i + 1].op = "update"

\* a suspended run pumped twice without calling the game, then returned
C8_Witness ==
    /\ RunJustReturned /\ run_entry.suspended /\ run_entry.running
    /\ Ops(RunLog) = <<"pump", "pump", "platform_shutdown">>

\* C10 as stated: application_run returns TRUE when the loop ended by a stop
\* request and FALSE when it ended because update or render failed.
C10_ReturnValueReportsFailure ==
    (RunJustReturned /\ run_entry.started) =>
        (Last(api).val = ~CallbackFailed(RunLog))

(***************************************************************************)
(* Claims about the memory ledger                                          *)
(***************************************************************************)
RECURSIVE SumTags(_, _)
SumTags(f, n) == IF n = 0 THEN 0 ELSE f[n - 1] + SumTags(f, n - 1)

NoneLive(tag) == \A b \in Blocks : b.tag = tag => live[b] = 0

\* C2: with every free matching an earlier, not yet freed allocation in size
\* and tag, total_allocated is back at its value from before the calls once
\* no block is live, and tagged_allocations[tag] is back at zero as soon as
\* no block of that tag is live.
C2_MatchedFreesRestoreLedger ==
    mem_pc = "ok" =>
        /\ live = NoLive => stats.total_allocated = initialize_memory.total_allocated
        /\ \A tag \in Tags : NoneLive(tag) => stats.tagged_allocations[tag] = 0

\* blocks of two tags and non-zero size were allocated and all freed again
C2_Witness ==
    /\ mem_pc = "ok" /\ live = NoLive
    /\ mem_calls.kallocate >= 2 /\ mem_calls.kfree = mem_calls.kallocate
    /\ stats.total_allocated = 0

\* C3: in every state reached from initialize_memory by kallocate calls and
\* matching kfree calls, total_allocated is the sum of all tagged_allocations.
C3_TotalIsSumOfTags ==
    stats.total_allocated = SumTags(stats.tagged_allocations, MEMORY_TAG_MAX_TAGS)

\* two tags hold bytes at the same time, after at least one free
C3_Witness ==
    /\ stats.tagged_allocations[MEMORY_TAG_GAME] > 0
    /\ stats.tagged_allocations[MEMORY_TAG_APPLICATION] > 0
    /\ mem_calls.kfree >= 1
    /\ stats.total_allocated > stats.tagged_allocations[MEMORY_TAG_GAME]

(***************************************************************************)
(* Claims about the message pump                                           *)
(***************************************************************************)

\* C9: on both backends the platform_pump_messages call that drains a pending
\* window-close request returns keep_running = FALSE.
C9_CloseRequestStopsPump ==
    (pump_out.called /\ \E i \in DOMAIN pump_out.drained :
                            IsCloseRequest(backend, pump_out.drained[i]))
        => ~pump_out.keep_running

(***************************************************************************)
(* Claims about application_create                                         *)
(***************************************************************************)
\* the calls a step appended to the log
NewCalls == SubSeq(calls', Len(calls) + 1, Len(calls'))

\* C11: an application_create that gets past the guard calls platform_startup
\* with the game's name, position and size, then initialize, then on_resize
\* with start_width and start_height; initialize is not called when
\* platform_startup failed, on_resize not when initialize failed, and only
\* when all three were made does create return TRUE and set initialized.
C11_CreateOrder ==
    [][ (IsCreateStep /\ ~initialized) =>
          LET d == NewCalls
              g == app_state'.game_inst
          IN  /\ Len(d) \in 1..3
              /\ d[1].op = "platform_startup"
              /\ d[1].arg = <<app_config(g).name, app_config(g).start_pos_x,
                              app_config(g).start_pos_y, app_config(g).start_width,
                              app_config(g).start_height>>
              /\ Len(d) >= 2 <=> (d[1].ret /\ ~d[1].crash)
              /\ Len(d) >= 2 => d[2].op = "initialize"
              /\ Len(d) = 3 <=> (Len(d) >= 2 /\ d[2].ret)
              /\ Len(d) = 3 =>
                    /\ d[3].op = "on_resize"
                    /\ d[3].arg = <<app_config(g).start_width, app_config(g).start_height>>
              /\ initialized' <=> Len(d) = 3
              /\ pc' = "idle" =>
                    api' = Append(api, [fn |-> "application_create", val |-> Len(d) = 3])
              /\ pc' = "crashed" => (api' = api /\ d[1].crash) ]_vars

\* a create of gameB went through all three steps and returned TRUE
C11_Witness ==
    /\ initialized /\ app_state.game_inst = "gameB"
    /\ Len(calls) = 3 /\ calls[3].op = "on_resize" /\ calls[3].arg = <<640, 480>>
    /\ api = <<[fn |-> "application_create", val |-> TRUE]>>


(***************************************************************************)
(* Claims about the entry points and the platform layer                    *)
(***************************************************************************)
CreateFailed ==
    /\ Len(api) >= 1
    /\ api[1].fn = "application_create"
    /\ ~api[1].val

\* C12: once application_create has returned FALSE to main (platform_startup
\* failed or the game's initialize returned FALSE), application_run is never
\* entered: no pump, update, render or shutdown call is made, no second API
\* call returns, and when the process has exited its status is non-zero.
C12_CreateFailureIsFatal ==
    (main_pc \in {"create", "run", "exited"} /\ CreateFailed) =>
        /\ Len(api) = 1
        /\ pc = "idle"
        /\ run_entry = NoEntry
        /\ \A i \in DOMAIN calls : calls[i].op \in {"platform_startup", "initialize"}
        /\ main_pc # "run"
        /\ main_pc = "exited" => exit.status # 0

C12_Witness ==
    /\ main_pc = "exited" /\ exit.status = 1
    /\ CreateFailed
    /\ Len(calls) = 2 /\ calls[2].op = "initialize" /\ ~calls[2].ret

\* C13: every platform_pump_messages and platform_shutdown call either entry
\* point makes is on a platform_state whose platform_startup returned TRUE
\* and which has not been shut down since.
C13_PlatformUsedOnlyWhenStarted ==
    \A i \in DOMAIN calls :
        calls[i].op \in {"pump", "platform_shutdown"} => calls[i].started

\* C14: on X11, when platform_startup failed at a step after XAutoRepeatOff
\* (XCB connection, window creation, flush), key-repeat is on again once the
\* process has exited.
C14_KeyRepeatRestoredAfterFailedStartup ==
    ( /\ backend = "x11"
      /\ main_pc = "exited"
      /\ \E i \in DOMAIN calls :
            /\ calls[i].op = "platform_startup"
            /\ calls[i].fail \in {"xcb", "window", "flush"} )
    => os.key_repeat

\* C15: when platform_shutdown has run on a started platform, key-repeat is
\* on, the window is destroyed and its handle cleared, and neither the
\* display connection nor the internal_state block is still held.
C15_ShutdownReleasesEverything ==
    ( /\ pc = "return"
      /\ run_entry.started
      /\ Last(calls).op = "platform_shutdown"
      /\ ~Last(calls).crash )
    => /\ os.key_repeat
       /\ os.windows = 0
       /\ app_state.platform.window = "null"
       /\ backend = "x11" => ~app_state.platform.display
       /\ ~app_state.platform.internal_state

\* C16: a platform_startup call in which some step fails returns FALSE and
\* does not fault.
C16_StartupFailureReturnsFalse ==
    \A i \in DOMAIN calls :
        (calls[i].op = "platform_startup" /\ calls[i].fail # "none") =>
            (~calls[i].ret /\ ~calls[i].crash)

GameRejected ==
    \/ game.ret = "FALSE"
    \/ game.ret = "TRUE" /\ \E f \in Slots : f \notin game.slots

\* C17: when create_game returned FALSE, or left one of the four function
\* pointers null, main makes no application_create or application_run call
\* (no engine call at all), and exits with a non-zero status after logging
\* an error.
C17_BadGameIsRejected ==
    GameRejected =>
        /\ api = <<>>
        /\ calls = <<>>
        /\ pc = "idle"
        /\ ~initialized
        /\ main_pc \in {"check", "exited"}
        /\ main_pc = "exited" =>
              /\ exit.status # 0
              /\ exit.report # "none"

C17_Witness ==
    /\ main_pc = "exited"
    /\ game.ret = "TRUE" /\ game.slots = Slots \ {"on_resize"}
    /\ exit.status = 254


(***************************************************************************)
(* Claims about kallocate and kfree                                        *)
(***************************************************************************)
MemCallMade == mem_calls' # mem_calls

\* C18: a kallocate or kfree call with tag UNKNOWN warns (and only that tag
\* does), and otherwise does what the call does for any tag: total_allocated
\* and the UNKNOWN slot move by size and no other slot moves, the block the
\* allocator supplied becomes live or the freed block stops being live, and
\* the tag causes no fault: the call faults only where it does for every tag,
\* when the platform allocator had no memory for a non-zero size.
C18_UnknownTagIsLegal ==
    [][ MemCallMade =>
          LET c    == mem_ret'
              sign == IF c.op = "kallocate" THEN 1 ELSE -1
              b    == [size |-> c.size, tag |-> c.tag]
          IN  /\ mem_warned' <=> (c.tag = MEMORY_TAG_UNKOWN)
              /\ c.tag = MEMORY_TAG_UNKOWN =>
                   /\ stats'.total_allocated = stats.total_allocated + sign * c.size
                   /\ stats'.tagged_allocations[MEMORY_TAG_UNKOWN] =
                         stats.tagged_allocations[MEMORY_TAG_UNKOWN] + sign * c.size
                   /\ \A t \in Tags \ {MEMORY_TAG_UNKOWN} :
                         stats'.tagged_allocations[t] = stats.tagged_allocations[t]
                   /\ (c.op = "kallocate" /\ ~c.block.null) =>
                         live' = [live EXCEPT ![b] = @ + 1]
                   /\ c.op = "kfree" => live' = [live EXCEPT ![b] = @ - 1]
                   /\ mem_pc' = "crashed" <=>
                         (c.op = "kallocate" /\ c.block.null /\ c.size > 0) ]_vars

\* a block of tag UNKNOWN was allocated and freed again, with a warning
C18_Witness ==
    /\ mem_ret.op = "kfree" /\ mem_ret.tag = MEMORY_TAG_UNKOWN /\ mem_ret.size = 4
    /\ mem_warned /\ mem_pc = "ok"
    /\ mem_calls.kallocate = 1 /\ mem_calls.kfree = 1
    /\ stats = initialize_memory

\* C19 as stated: every kallocate call, whatever the size and tag, returns
\* without a fault, and for a non-zero size returns a block of size bytes
\* that are all zero.
C19_AlwaysZeroedBlock ==
    mem_ret.op = "kallocate" =>
        /\ mem_pc = "ok"
        /\ mem_ret.size > 0 =>
              /\ ~mem_ret.block.null
              /\ Len(mem_ret.block.bytes) = mem_ret.size
              /\ \A i \in 1 .. mem_ret.size : mem_ret.block.bytes[i] = 0

\* C19: whenever the platform allocator supplies a block, kallocate returns
\* it with size bytes that all read as zero, for every size and tag; when the
\* allocator returns NULL, kallocate returns NULL for size 0 and faults in
\* the zeroing for a non-zero size.
C19_ZeroedWhenAllocated ==
    mem_ret.op = "kallocate" =>
        /\ ~mem_ret.block.null =>
              /\ mem_pc = "ok"
              /\ Len(mem_ret.block.bytes) = mem_ret.size
              /\ \A i \in 1 .. mem_ret.size : mem_ret.block.bytes[i] = 0
        /\ mem_ret.block.null => (mem_pc = "crashed" <=> mem_ret.size > 0)

C19_Witness ==
    /\ mem_ret.op = "kallocate" /\ mem_ret.size = 4
    /\ mem_ret.tag = MEMORY_TAG_APPLICATION
    /\ ~mem_ret.block.null /\ mem_ret.block.bytes = <<0, 0, 0, 0>>
    /\ mem_pc = "ok"


(***************************************************************************)
(* Claims about the usage report                                           *)
(***************************************************************************)

\* C20: whatever the ledger holds, get_memory_usage_str writes after the
\* header one complete line for each of the 17 tags, in enum order (UNKNOWN
\* first, SCENE last), each line starting where the one before ended, and
\* the write offset stays at or below 7999 throughout.
C20_ReportOrderAndBound ==
    report.called =>
        /\ Len(report.lines) = 17
        /\ \A i \in 1 .. Len(report.lines) :
              LET e == report.lines[i]
              IN  /\ e.tag = i - 1
                  /\ e.line.name = memory_tag_strings[i - 1]
                  /\ e.written = e.line.length
                  /\ e.at = IF i = 1 THEN 28
                            ELSE report.lines[i - 1].at + report.lines[i - 1].written
                  /\ e.at + e.written <= 7999
        /\ report.lines[1].line.name = "UNKNOWN    "
        /\ report.lines[17].line.name = "SCENE      "
        /\ report.offset = report.lines[17].at + report.lines[17].written
        /\ report.offset <= 7999

\* a report over a wrapped counter and one at a unit threshold
C20_Witness ==
    /\ report.called
    /\ stats.tagged_allocations[MEMORY_TAG_UNKOWN] = -1
    /\ stats.tagged_allocations[MEMORY_TAG_MAX_TAGS - 1] = 1048575
    /\ report.lines[1].line.unit = "GiB" /\ report.lines[1].line.length = 33
    /\ report.lines[17].line.amount = [whole |-> <<1, 0, 2, 4>>, frac |-> <<0, 0>>]
    /\ report.lines[17].line.unit = "KiB"


RECURSIVE DigitsValue(_)
DigitsValue(ds) ==
    IF ds = <<>> THEN 0 ELSE 10 * DigitsValue(SubSeq(ds, 1, Len(ds) - 1)) + ds[Len(ds)]

\* the unit the thresholds 1024, 1024^2, 1024^3 give a counter; a counter
\* below zero stands for one just under 2^64
FittingUnit(b) ==
    IF b < 0 \/ b >= 1024 * 1024 * 1024 THEN [name |-> "GiB", size |-> 1024 * 1024 * 1024]
    ELSE IF b >= 1024 * 1024 THEN [name |-> "MiB", size |-> 1024 * 1024]
    ELSE IF b >= 1024 THEN [name |-> "KiB", size |-> 1024]
    ELSE [name |-> "B", size |-> 1]

Abs(n) == IF n < 0 THEN -n ELSE n

\* the printed amount is b divided by the size of the printed unit, to
\* within one hundredth. For GiB the remainder is compared in KiB. A counter
\* b < 0 is 2^64 + b: its quotient is 2^34 GiB less -b bytes.
AmountIsQuotient(b, ln) ==
    LET u == FittingUnit(b).size
    IN  IF b < 0
        THEN /\ ln.amount.whole = <<1, 7, 1, 7, 9, 8, 6, 9, 1, 8, 4>>
             /\ ln.amount.frac = <<0, 0>>
             /\ ((-b) \div 1024) * 100 <= 1024 * 1024
        ELSE LET h  == 100 * DigitsValue(ln.amount.whole) + DigitsValue(ln.amount.frac)
                 d  == h - 100 * (b \div u)
                 sc == IF u > 1024 * 1024 THEN 1024 ELSE 1
             IN  Abs(d * (u \div sc) - 100 * ((b % u) \div sc)) <= u \div sc

ReportedCounter(i) == stats.tagged_allocations[report.lines[i].tag]

\* C21 as stated: every line of the report carries the largest fitting unit
\* of its counter b, and the amount printed is b divided by that unit's size.
C21_AmountIsExactQuotient ==
    report.called =>
        \A i \in 1 .. Len(report.lines) :
            /\ report.lines[i].line.unit = FittingUnit(ReportedCounter(i)).name
            /\ AmountIsQuotient(ReportedCounter(i), report.lines[i].line)

\* C21: every line of the report carries the largest fitting unit of its
\* counter b (GiB from 1024^3, MiB from 1024^2, KiB from 1024, else B); for
\* a counter up to 2^30 the amount printed is b divided by the unit's size
\* to two decimals, and a counter wrapped below zero, which as a 32-bit
\* float is 2^64, is printed as 17179869184.00GiB.
C21_UnitAndAmount ==
    report.called =>
        \A i \in 1 .. Len(report.lines) :
            LET b  == ReportedCounter(i)
                ln == report.lines[i].line
            IN  /\ ln.unit = FittingUnit(b).name
                /\ b >= 0 => AmountIsQuotient(b, ln)
                /\ b < 0 => ln.amount = [whole |-> <<1, 7, 1, 7, 9, 8, 6, 9, 1, 8, 4>>,
                                         frac |-> <<0, 0>>]

\* 1024 bytes are reported as 1.00KiB and 1023 bytes as 1023.00B
C21_Witness ==
    /\ report.called
    /\ stats.tagged_allocations[MEMORY_TAG_UNKOWN] = 1024
    /\ report.lines[1].line.unit = "KiB"
    /\ report.lines[1].line.amount = [whole |-> <<1>>, frac |-> <<0, 0>>]
    /\ stats.tagged_allocations[MEMORY_TAG_MAX_TAGS - 1] = 1023
    /\ report.lines[17].line.unit = "B"
    /\ report.lines[17].line.amount = [whole |-> <<1, 0, 2, 3>>, frac |-> <<0, 0>>]


(***************************************************************************)
(* Claims about the frame callbacks and the logger                         *)
(***************************************************************************)

\* the frame before call i: the latest earlier call of the same callback in
\* the same application_run (no platform_shutdown in between), 0 if none
PreviousFrame(i) ==
    LET same == {j \in 1 .. (i - 1) :
                    /\ calls[j].op = calls[i].op
                    /\ \A k \in j .. i : calls[k].op # "platform_shutdown"}
    IN  IF same = {} THEN 0 ELSE CHOOSE j \in same : \A k \in same : k <= j

\* C22: from the second frame of a run on, the delta_time handed to update
\* and to render is the absolute time of this frame less the absolute time
\* of the frame before.
C22_DeltaTimeIsElapsedTime ==
    \A i \in DOMAIN calls :
        (calls[i].op \in {"update", "render"} /\ PreviousFrame(i) # 0) =>
            calls[i].arg = <<calls[i].at - calls[PreviousFrame(i)].at>>

FatalLogged(lines) == \E i \in DOMAIN lines : lines[i].level = LOG_LEVEL_FATAL

C24_ZeroAndCopy ==
    /\ buf_call.op = "kzero_memory" =>
          /\ \A i \in 1 .. buf_call.size : heap[buf_call.block][i] = 0
          /\ buf_call.ret = buf_call.block
    /\ buf_call.op = "kcopy_memory" =>
          /\ \A i \in 1 .. buf_call.size : heap["dest"][i] = buf_call.before["src"][i]
          /\ heap["src"] = buf_call.before["src"]
          /\ \A i \in (buf_call.size + 1) .. Len(heap["dest"]) :
                heap["dest"][i] = buf_call.before["dest"][i]
          /\ buf_call.ret = "dest"

\* two of three bytes were copied over different ones, the third differs
\* from src and is as before
C24_Witness ==
    /\ buf_call.op = "kcopy_memory" /\ buf_call.size = 2
    /\ \A i \in 1 .. 3 : buf_call.before["dest"][i] = 1
    /\ heap["src"][1] = 255 /\ heap["src"][2] = 0 /\ heap["src"][3] = 255
    /\ heap["dest"][1] = 255 /\ heap["dest"][2] = 0 /\ heap["dest"][3] = 1


(***************************************************************************)
(* Claims about the ledger arithmetic                                      *)
(***************************************************************************)
LedgerSign(op) == IF op = "kallocate" THEN 1 ELSE -1

\* C25: a kallocate call adds exactly size to total_allocated and to the
\* slot of its tag, a kfree call takes exactly size from both; no other
\* slot changes; a call with size 0 is accepted and leaves the whole
\* ledger as it was.
C25_LedgerMovesBySize ==
    [][ MemCallMade =>
          LET c == mem_ret'
          IN  /\ stats'.total_allocated =
                    stats.total_allocated + LedgerSign(c.op) * c.size
              /\ stats'.tagged_allocations[c.tag] =
                    stats.tagged_allocations[c.tag] + LedgerSign(c.op) * c.size
              /\ \A t \in Tags \ {c.tag} :
                    stats'.tagged_allocations[t] = stats.tagged_allocations[t]
              /\ c.size = 0 => (stats' = stats /\ mem_pc' = "ok") ]_vars

\* a zero-size allocation for which malloc gave NULL was accepted, and the
\* ledger still holds the four bytes allocated before
C25_Witness ==
    /\ mem_ret.op = "kallocate" /\ mem_ret.size = 0 /\ mem_ret.block.null
    /\ mem_pc = "ok"
    /\ mem_calls.kallocate = 2 /\ mem_calls.kfree = 0
    /\ stats.total_allocated = 4
    /\ stats.tagged_allocations[MEMORY_TAG_APPLICATION] = 4

\* the step frees block b under a size or tag b was not allocated with
MismatchedFreeOf(b) ==
    /\ mem_calls'.kfree = mem_calls.kfree + 1
    /\ live[b] > 0
    /\ live' = [live EXCEPT ![b] = @ - 1]
    /\ mem_ret'.size # b.size \/ mem_ret'.tag # b.tag

\* C26: a kfree whose size or tag differs from the allocation's returns
\* normally and reports nothing (the UNKNOWN warning aside): the block is
\* released, and total_allocated and the slot of the tag passed become
\* old - size modulo 2^64, below zero standing for the wrapped value.
C26_MismatchedFreeGoesThrough ==
    [][ (\E b \in Blocks : MismatchedFreeOf(b)) =>
          LET c == mem_ret'
          IN  /\ mem_pc' = "ok"
              /\ \A i \in DOMAIN logged' : logged'[i].level = LOG_LEVEL_WARN
              /\ logged' # <<>> => c.tag = MEMORY_TAG_UNKOWN
              /\ stats'.total_allocated = stats.total_allocated - c.size
              /\ stats'.tagged_allocations[c.tag] =
                    stats.tagged_allocations[c.tag] - c.size ]_vars

\* a one-byte GAME block was freed as four bytes: both counters have wrapped
\* below zero
C26_Witness ==
    /\ mem_pc = "ok"
    /\ mem_ret.op = "kfree" /\ mem_ret.size = 4 /\ mem_ret.tag = MEMORY_TAG_GAME
    /\ mem_calls.kallocate = 1 /\ mem_calls.kfree = 1
    /\ live = NoLive
    /\ stats.tagged_allocations[MEMORY_TAG_GAME] = -3
    /\ stats.total_allocated = -3

RECURSIVE SlotSum(_, _)
SlotSum(f, S) ==
    IF S = {} THEN 0
    ELSE LET t == CHOOSE x \in S : TRUE IN f[t] + SlotSum(f, S \ {t})

\* C27: whatever kallocate and kfree calls were made, matching or not,
\* total_allocated is the sum of all tagged_allocations modulo 2^64 (both
\* sides kept as the residues they stand for).
C27_TotalIsSumModulo ==
    stats.total_allocated = SlotSum(stats.tagged_allocations, Tags)

\* a block was freed under another tag: one slot has wrapped below zero,
\* another still holds the bytes, and the total is zero
C27_Witness ==
    /\ stats.tagged_allocations[MEMORY_TAG_GAME] = 4
    /\ stats.tagged_allocations[MEMORY_TAG_UNKOWN] = -4
    /\ stats.total_allocated = 0
    /\ live = NoLive


\* C28: kallocate has debited total_allocated and the slot of its tag by
\* size when it calls the platform allocator, and the debit stays when the
\* allocator gives no block: after a failed allocation the ledger still
\* holds size more than before the call.
C28_DebitPrecedesAllocation ==
    [][ (MemCallMade /\ mem_ret'.op = "kallocate") =>
          LET c == mem_ret'
              Debited(l) ==
                  /\ l.total_allocated = stats.total_allocated + c.size
                  /\ l.tagged_allocations[c.tag] =
                        stats.tagged_allocations[c.tag] + c.size
          IN  /\ Debited(c.ledger)
              /\ c.block.null => Debited(stats') ]_vars

\* the second allocation, of four bytes, got no block: the ledger went from
\* one byte to five and the call faulted in memset
C28_Witness ==
    /\ mem_ret.op = "kallocate" /\ mem_ret.size = 4 /\ mem_ret.block.null
    /\ mem_ret.tag = MEMORY_TAG_GAME
    /\ mem_calls.kallocate = 2
    /\ mem_pc = "crashed"
    /\ stats.total_allocated = 5
    /\ stats.tagged_allocations[MEMORY_TAG_GAME] = 4


(***************************************************************************)
(* Claims about the X11 pump                                               *)
(***************************************************************************)
\* a client message carrying the cached WM_DELETE_WINDOW atom
DeleteWindowMessage(e) ==
    /\ e.response_type \in {XCB_CLIENT_MESSAGE, XCB_CLIENT_MESSAGE + SentBit}
    /\ e.data32_0 = "WM_DELETE_WINDOW"

\* C30: on X11 one platform_pump_messages call empties the event queue, also
\* past a close request, and returns FALSE exactly when one of the events it
\* drained is a client message whose first data word is the WM_DELETE_WINDOW
\* atom; no other event changes the result.
C30_X11PumpDrainsAndReports ==
    (backend = "x11" /\ pump_out.called) =>
        /\ queue = <<>>
        /\ pump_out.keep_running =
              ~(\E i \in DOMAIN pump_out.drained :
                    DeleteWindowMessage(pump_out.drained[i]))

\* the close request came first and a sent key press carrying the same data
\* word after it: both were drained and the call returned FALSE
C30_Witness ==
    /\ backend = "x11" /\ pump_out.called
    /\ Len(pump_out.drained) = 2
    /\ pump_out.drained[1] = [response_type |-> XCB_CLIENT_MESSAGE + SentBit,
                              data32_0 |-> "WM_DELETE_WINDOW"]
    /\ pump_out.drained[2].response_type = XCB_KEY_PRESS + SentBit
    /\ queue = <<>>
    /\ ~pump_out.keep_running


(***************************************************************************)
(* Claims about threads on the ledger                                      *)
(***************************************************************************)
\* every thread has run all its matched pairs
AllDone == \A i \in threads.active : threads.t[i].op = "done"

\* C29: the ledger update of kallocate/kfree is a load and a store with no
\* lock. A single thread that has finished its matched kallocate/kfree
\* pairs leaves every counter at its starting value; with two threads
\* interleaving such pairs an update can be lost and a counter can end
\* elsewhere (the state C29_Witness describes).
C29_OneThreadRestoresLedger ==
    (threads.active = {1} /\ AllDone) => stats = threads.start

\* two threads have finished one matched pair each on a zero ledger, and a
\* lost update leaves total_allocated at a byte that nobody holds while the
\* tag slots are back at zero
C29_Witness ==
    /\ threads.active = {1, 2} /\ AllDone
    /\ threads.t[1].pairs = 1 /\ threads.t[2].pairs = 1
    /\ threads.start = initialize_memory
    /\ stats.total_allocated = 1
    /\ \A tag \in Tags : stats.tagged_allocations[tag] = 0


(***************************************************************************)
(* Claims about the lifecycle as a whole                                   *)
(***************************************************************************)
\* C31: when render returns failure, is_running is FALSE, the next call made
\* is platform_shutdown (no further pump, update or render call of that
\* run), and the shutdown is made before application_run returns (on a
\* platform that was never started the shutdown call itself faults).
C31_RenderFailureStopsLoop ==
    \A i \in DOMAIN calls :
        (calls[i].op = "render" /\ ~calls[i].ret) =>
            IF i = Len(calls)
            THEN pc = "exit" /\ ~app_state.is_running
            ELSE /\ calls[i + 1].op = "platform_shutdown"
                 /\ ~calls[i + 1].running
                 /\ (i + 1 = Len(calls) /\ i > run_start) =>
                       \/ pc \in {"return", "idle"}
                       \/ pc = "crashed" /\ calls[i + 1].crash /\ ~run_entry.started

\* render failed in the second iteration of a run that has since returned
C31_Witness ==
    /\ RunJustReturned /\ run_entry.started
    /\ Ops(RunLog) = Frames(2) \o <<"platform_shutdown">>
    /\ RunLog[3].ret /\ ~RunLog[6].ret
    /\ ~app_state.is_running

\* C33: is_suspended is FALSE in every state application_create and
\* application_run reach, so every pump call that returns is followed by an
\* update call.
C33_NeverSuspended ==
    /\ ~app_state.is_suspended
    /\ \A i \in DOMAIN calls :
          (calls[i].op = "pump" /\ ~calls[i].crash) =>
              IF i = Len(calls) THEN pc = "update"
              ELSE calls[i + 1].op = "update"

\* the pump has returned stop and update was still called
C33_Witness ==
    /\ initialized /\ ~app_state.is_suspended
    /\ Len(RunLog) = 2
    /\ RunLog[1].op = "pump" /\ ~RunLog[1].ret /\ ~RunLog[1].crash
    /\ RunLog[2].op = "update"

\* an application_create call got past the guard and returned FALSE
CreateBodyFailed ==
    /\ IsCreateStep /\ ~initialized
    /\ api' = Append(api, [fn |-> "application_create", val |-> FALSE])

\* C34: an application_create that fails leaves the lifecycle as it was
\* before the call: is_running is FALSE as before and initialized is unset,
\* so an application_run called afterwards does not enter its loop.
C34_FailedCreateLeavesUninitialized ==
    [][ CreateBodyFailed =>
          /\ ~initialized'
          /\ app_state'.is_running = app_state.is_running
          /\ ~app_state'.is_running
          /\ LoopTest(app_state'.is_running) = "exit" ]_vars

\* the platform_startup calls that returned TRUE
StartedAt == {i \in DOMAIN calls : calls[i].op = "platform_startup"
                                     /\ calls[i].ret /\ ~calls[i].crash}

ShutdownAt == {i \in DOMAIN calls : calls[i].op = "platform_shutdown"}

\* C35: over any sequence of application_create calls platform_startup
\* succeeds at most once, also when an earlier create failed after the
\* platform had been started.
C35_StartupSucceedsAtMostOnce ==
    Cardinality(StartedAt) <= 1

\* C36: once application_create has succeeded, platform_shutdown is called
\* at most once for each successful platform_startup, and an application_run
\* entered after an earlier one has returned makes no pump, update, render
\* or platform_shutdown call.
C36_ShutdownAtMostOncePerStartup ==
    initialized =>
        /\ Cardinality(ShutdownAt) <= Cardinality(StartedAt)
        /\ (RunJustReturned
              /\ \E k \in 1 .. (Len(api) - 1) : api[k].fn = "application_run")
              => RunLog = <<>>

\* C37: when the process started by main of entry.h has exited without a
\* fault, every platform_startup that returned TRUE was followed by exactly
\* one platform_shutdown, also when the game's initialize failed after the
\* platform was started.
C37_EveryStartupIsShutDown ==
    (main_pc = "exited" /\ game # NoGame /\ exit.status # SIGSEGV_STATUS) =>
        \A i \in StartedAt :
            Cardinality({j \in ShutdownAt : j > i}) = 1

\* C38: main of entry.h has run initialize_memory before the game's
\* kallocate, and nothing resets the ledger afterwards: from the return of
\* create_game on, and so when application_run starts, total_allocated and
\* tagged_allocations[GAME] hold the game-state block and no other slot
\* holds anything.
C38_LedgerKeepsGameState ==
    /\ mem_calls.kallocate > 0 => main_pc \notin {"start", "tb_start"}
    /\ (main_pc \in {"check", "create", "run"}
          \/ (main_pc = "exited" /\ game # NoGame /\ game.ret # "crashed")) =>
          /\ mem_calls = [kallocate |-> 1, kfree |-> 0]
          /\ stats.total_allocated = sizeof_game_state
          /\ \A t \in Tags :
                stats.tagged_allocations[t] =
                   IF t = MEMORY_TAG_GAME THEN sizeof_game_state ELSE 0

\* application_run has started pumping and the ledger holds the four bytes
\* of the game state
C38_Witness ==
    /\ main_pc = "run" /\ pc = "update" /\ initialized
    /\ stats.total_allocated = 4
    /\ stats.tagged_allocations[MEMORY_TAG_GAME] = 4
    /\ live[[size |-> 4, tag |-> MEMORY_TAG_GAME]] = 1


\* inside application_run with is_running FALSE: the pump has returned stop
\* or a callback has failed (or the flag was FALSE on entry)
StopSeen == InRun /\ ~app_state.is_running

\* C32: application_run returns once the pump has returned stop or a
\* callback has failed. Inside the run is_running only ever goes from TRUE
\* to FALSE, and after a pump call that returned stop no pump call and at
\* most one update and one render call are made before platform_shutdown.
C32_RunTerminates ==
    /\ [][ (InRun /\ app_state'.is_running # app_state.is_running) =>
              (app_state.is_running /\ ~app_state'.is_running) ]_vars
    /\ [](\A i \in DOMAIN RunLog :
             (RunLog[i].op = "pump" /\ ~RunLog[i].ret) =>
                 LET rest == SubSeq(RunLog, i + 1, Len(RunLog))
                 IN  /\ CountOp(rest, "pump") = 0
                     /\ CountOp(rest, "update") <= 1
                     /\ CountOp(rest, "render") <= 1
                     /\ CountOp(rest, "platform_shutdown") <= 1)
    /\ (StopSeen ~> RunJustReturned)

\* the pump returned stop on its second call; the run went through update
\* and render once more, shut the platform down and returned
C32_Witness ==
    /\ RunJustReturned /\ run_entry.running /\ ~run_entry.suspended
    /\ Ops(RunLog) = Frames(2) \o <<"platform_shutdown">>
    /\ RunLog[1].ret /\ ~RunLog[4].ret
    /\ RunLog[5].ret /\ RunLog[6].ret
    /\ ~app_state.is_running


(***************************************************************************)
(* Claims about the logger's buffer                                        *)
(***************************************************************************)
\* C39: for every level and every message length log_output writes only to
\* indices 0 .. 31999 of out_message: prefix and message are cut to fit,
\* the newline goes to an index of at most 31998 and the terminator behind
\* it to an index of at most 31999.
C39_LogStaysInBuffer ==
    log_buf.called =>
        /\ log_buf.memset_hi = 31999
        /\ log_buf.prefix_hi \in 0 .. 31999
        /\ log_buf.msg_lo \in 0 .. 31999
        /\ log_buf.msg_hi \in log_buf.msg_lo .. 31999
        /\ log_buf.newline_at \in 0 .. 31998
        /\ log_buf.nul_at = log_buf.newline_at + 1
        /\ log_buf.nul_at <= 31999
        /\ log_buf.n >= 0 =>
              LET whole == Len(level_strings[log_buf.level]) + log_buf.n
              IN  log_buf.newline_at = IF whole < 31998 THEN whole ELSE 31998

\* a FATAL message of 40000 characters: the message filled the buffer to its
\* last byte and the newline took the place of its last character
C39_Witness ==
    /\ log_buf.called /\ log_buf.level = LOG_LEVEL_FATAL /\ log_buf.n = 40000
    /\ log_buf.msg_lo = 9 /\ log_buf.msg_hi = 31999
    /\ log_buf.newline_at = 31998 /\ log_buf.nul_at = 31999

====
